---- MODULE Spec2Model ----
(***************************************************************************)
(* Zoning and routing core of the Intelligent Zone Generator.              *)
(*                                                                         *)
(* One record-valued variable per component:                               *)
(*   http  - one oracle HTTP call (OSRMClient._table_single_request/route) *)
(*   tbl   - one chunked OSRMClient.table call                             *)
(*   bal   - one balance_assignments run                                   *)
(*   seq   - one solve_sequence_only run                                   *)
(*   vrp   - one solve_vrp run                                             *)
(*   zon   - one zoning strategy generate() run                            *)
(*   ovl   - one _convex_hull_overlays run                                 *)
(*   orc   - one optimize_routes or process_zoning_request call          *)
(* Every specification below drives one component and keeps the others    *)
(* switched off.                                                           *)
(***************************************************************************)
EXTENDS Integers, Sequences, FiniteSets, TLC

VARIABLES http, tbl, bal, seq, vrp, zon, ovl, orc

vars == <<http, tbl, bal, seq, vrp, zon, ovl, orc>>

Off == [pc |-> "off"]

\* ------------------------------------------------------------------------
\* Generic helpers
\* ------------------------------------------------------------------------
Max2(a, b) == IF a >= b THEN a ELSE b

Min2(a, b) == IF a <= b THEN a ELSE b

Max3(a, b, c) == Max2(a, Max2(b, c))

RECURSIVE Pow2(_)
Pow2(k) == IF k <= 0 THEN 1 ELSE 2 * Pow2(k - 1)

RECURSIVE SumSeq(_)
SumSeq(s) == IF s = <<>> THEN 0 ELSE Head(s) + SumSeq(Tail(s))

SeqToSet(s) == {s[i] : i \in 1..Len(s)}

\* ========================================================================
\* Oracle HTTP call: OSRMClient._table_single_request and OSRMClient.route
\* ========================================================================
\* Largest configured retry count explored (settings.osrm_max_retries, ge=0).
MaxRetriesBound == 3

\* Values of backoff_seconds explored.
BackoffChoices == {1, 2}

HttpOps == {"table", "route"}

\* What one client.get + raise_for_status + json + body check can produce:
\*   ok       - a well-formed answer
\*   status414, status5xx - httpx.HTTPStatusError with that status
\*   timeout  - httpx.TimeoutException / ReadTimeout
\*   connect  - httpx.ConnectError / NetworkError / OSError
\*   invalid  - ValueError raised on a malformed body (missing
\*              durations/distances, or code != "Ok")
HttpOutcomes == {"ok", "status414", "status5xx", "timeout", "connect", "invalid"}

\* The except clause that handles an outcome, in the order Python tries them.
\* The table request tests for 414 inside the HTTPStatusError clause; the
\* route request has no such test.
HandlerOf(op, outcome) ==
    CASE outcome = "ok" -> "return"
      [] outcome = "status414" /\ op = "table" -> "url_too_large"
      [] outcome \in {"status414", "status5xx"} -> "status"
      [] outcome = "timeout" -> "timeout"
      [] outcome = "connect" -> "connect"
      [] OTHER -> "other"

\* time.sleep argument of each except clause for the given attempt number.
LinearWait(backoff, attempt) == backoff * attempt

ExponentialWait(backoff, attempt) == backoff * Pow2(attempt - 1)

WaitOf(handler, backoff, attempt) ==
    IF handler \in {"timeout", "connect"}
    THEN ExponentialWait(backoff, attempt)
    ELSE LinearWait(backoff, attempt)

\* Exception that leaves the call once the retries are used up.
RaisedOf(handler) ==
    CASE handler = "status" -> "HTTPStatusError"
      [] handler = "timeout" -> "TimeoutException"
      [] handler = "connect" -> "ConnectionError"
      [] OTHER -> "ValueError"

HttpInit ==
    /\ \E op \in HttpOps, r \in 0..MaxRetriesBound, b \in BackoffChoices :
        http = [pc |-> "request", op |-> op, max_retries |-> r,
                backoff_seconds |-> b, attempt |-> 0, requests |-> 0,
                last |-> "none", waits |-> <<>>, raised |-> "none"]
    /\ tbl = Off /\ bal = Off /\ seq = Off /\ vrp = Off /\ zon = Off /\ ovl = Off /\ orc = Off

\* One pass of the `while True` loop: the request, and the except clause that
\* handles its outcome (including its sleep).
HttpAttempt ==
    /\ http.pc = "request"
    /\ \E outcome \in HttpOutcomes :
        LET h == HandlerOf(http.op, outcome)
            a == http.attempt + 1
            base == [http EXCEPT !.requests = @ + 1, !.last = outcome]
        IN  http' =
              CASE h = "return" -> [base EXCEPT !.pc = "returned"]
                [] h = "url_too_large" ->
                     [base EXCEPT !.pc = "raised", !.raised = "ValueError:url_too_large"]
                [] a > http.max_retries ->
                     [base EXCEPT !.pc = "raised", !.attempt = a, !.raised = RaisedOf(h)]
                [] OTHER ->
                     [base EXCEPT !.attempt = a,
                                  !.waits = Append(@, [cause |-> outcome, retry |-> a,
                                                       seconds |-> WaitOf(h, http.backoff_seconds, a)])]
    /\ UNCHANGED <<tbl, bal, seq, vrp, zon, ovl, orc>>

HttpNext == HttpAttempt

SpecHttp == HttpInit /\ [][HttpNext]_vars

\* C10 (as stated): one oracle HTTP call makes at most max_retries + 1
\* requests; every wait before retry k after a timeout, a connection error or a
\* 5xx answer lasts backoff_seconds * 2^(k-1); the call raises once the retries
\* are used up; and a 414 answer ends the call at once with the descriptive
\* URL-too-large error, with no retry and no wait after it.
C10_RetryBackoffAsStated ==
    http.pc # "off" =>
        /\ http.requests <= http.max_retries + 1
        /\ \A k \in 1..Len(http.waits) :
              http.waits[k].cause \in {"timeout", "connect", "status5xx"} =>
                  http.waits[k].seconds = http.backoff_seconds * Pow2(http.waits[k].retry - 1)
        /\ (http.pc = "request" => http.attempt <= http.max_retries)
        /\ (http.last = "status414" =>
               http.pc = "raised" /\ http.raised = "ValueError:url_too_large")

\* ========================================================================
\* Chunked matrix request: OSRMClient.table
\* ========================================================================
\* Largest number of coordinates in one table() call.
MaxCoords == 4

\* Largest number of chunks the coordinate list is cut into.
MaxChunks == 2

\* Largest max_parallel_requests (ThreadPoolExecutor max_workers).
MaxParallel == 2

\* Python's None in a matrix cell: the oracle's null (no route) and the value
\* the result matrices are pre-filled with.
NoneValue == -1

\* The oracle (external service): travel time and distance between two places.
\* Place p of the model is the p-th coordinate of the call. The oracle finds
\* no route from place 1 to place 2 and answers null for that pair.
NoRoute == {<<1, 2>>}

OracleDuration(p, q) ==
    IF p = q THEN 0 ELSE IF <<p, q>> \in NoRoute THEN NoneValue ELSE 10 * p + q

OracleDistance(p, q) ==
    IF p = q THEN 0 ELSE IF <<p, q>> \in NoRoute THEN NoneValue ELSE 100 * p + q

\* The oracle's answer to one table request: one row per source index, one
\* column per destination index (indices are 0-based positions in cc).
OracleLeg(kind, p, q) ==
    IF kind = "durations" THEN OracleDuration(p, q) ELSE OracleDistance(p, q)

OracleTable(kind, cc, sources, destinations) ==
    [i \in 1..Len(sources) |->
        [j \in 1..Len(destinations) |->
            OracleLeg(kind, cc[sources[i] + 1], cc[destinations[j] + 1])]]

\* range(a, b) as a sequence.
Range(a, b) == [k \in 1..Max2(b - a, 0) |-> a + k - 1]

\* coordinates[i : j] of a 1-based sequence, Python slice semantics.
Slice(s, i, j) == [k \in 1..Max2(Min2(j, Len(s)) - i, 0) |-> s[i + k]]

\* chunk_ranges: for i in range(0, n, chunk_size): (i, i + len(chunk)).
NumChunks(n, chunk_size) == (n + chunk_size - 1) \div chunk_size

\* Chunk ranges that reach one index into the next chunk.
ChunkRangeOverlapping(n, chunk_size, c) ==
    [start |-> c * chunk_size, end |-> Min2(c * chunk_size + chunk_size + 1, n)]

ChunkRange(n, chunk_size, c) ==
    [start |-> c * chunk_size, end |-> Min2(c * chunk_size + chunk_size, n)]

Chunk(coords, chunk_size, c) ==
    Slice(coords, c * chunk_size, c * chunk_size + chunk_size)

\* chunk_requests is built source-major; request r (1-based) pairs these chunks.
SrcChunkOf(r, k) == (r - 1) \div k

DstChunkOf(r, k) == (r - 1) % k

\* _process_chunk_request: the coordinates and index lists of one chunk pair.
SrcIndices(srcLen, totalLen) == Range(0, srcLen)

DstIndicesFromZero(srcLen, totalLen) == Range(0, totalLen - srcLen)

DstIndices(srcLen, totalLen) == Range(srcLen, totalLen)

ChunkAnswer(kind, coords, chunk_size, r, k) ==
    LET src == Chunk(coords, chunk_size, SrcChunkOf(r, k))
        dst == Chunk(coords, chunk_size, DstChunkOf(r, k))
        cc == src \o dst
    IN  OracleTable(kind, cc, SrcIndices(Len(src), Len(cc)), DstIndices(Len(src), Len(cc)))

\* The cells (global 0-based index pairs) of request r.
CellsOf(n, chunk_size, r, k) ==
    LET sr == ChunkRange(n, chunk_size, SrcChunkOf(r, k))
        dr == ChunkRange(n, chunk_size, DstChunkOf(r, k))
    IN  {<<i, j>> : i \in sr.start..(sr.end - 1), j \in dr.start..(dr.end - 1)}

\* Lines 240-245: copy a chunk answer into the full matrix by global index.
Stitch(matrix, answer, n, chunk_size, r, k) ==
    LET sr == ChunkRange(n, chunk_size, SrcChunkOf(r, k))
        dr == ChunkRange(n, chunk_size, DstChunkOf(r, k))
    IN  [i \in 0..(n - 1) |-> [j \in 0..(n - 1) |->
            LET ls == i - sr.start
                ld == j - dr.start
            IN  IF /\ i >= sr.start /\ i < sr.end /\ j >= dr.start /\ j < dr.end
                   /\ ls < Len(answer) /\ ld < Len(answer[ls + 1])
                THEN answer[ls + 1][ld + 1]
                ELSE matrix[i][j]]]

\* failure_rate > critical_failure_threshold (0.5), on exact fractions.
CriticalFailureAtHalf(failed, total) == 2 * failed >= total

CriticalFailure(failed, total) == 2 * failed > total

TblCoords(n) == [i \in 1..n |-> i]

TblInit ==
    /\ \E n \in 2..MaxCoords, cs \in 1..MaxCoords, par \in 1..MaxParallel :
        /\ NumChunks(n, cs) <= MaxChunks
        /\ tbl = [pc |-> "call", n |-> n, chunk_size |-> cs, max_parallel |-> par,
                  chunks |-> 0, started |-> 0, running |-> {}, outcome |-> <<>>,
                  durations |-> <<>>, distances |-> <<>>, writes |-> <<>>,
                  completed |-> 0, failed_chunks |-> 0, raised |-> "none"]
    /\ http = Off /\ bal = Off /\ seq = Off /\ vrp = Off /\ zon = Off /\ ovl = Off /\ orc = Off

\* table(), len(coordinates) <= max_coordinates_per_request: one request for
\* the whole list; its answer, or its exception, is the result of the call.
TableSingleRequest ==
    /\ tbl.pc = "call"
    /\ tbl.n <= tbl.chunk_size
    /\ \E ok \in BOOLEAN :
        LET all == Range(0, tbl.n)
        IN  tbl' = IF ok
                   THEN [tbl EXCEPT !.pc = "returned",
                            !.durations = OracleTable("durations", TblCoords(tbl.n), all, all),
                            !.distances = OracleTable("distances", TblCoords(tbl.n), all, all)]
                   ELSE [tbl EXCEPT !.pc = "raised", !.raised = "request_error"]
    /\ UNCHANGED <<http, bal, seq, vrp, zon, ovl, orc>>

\* table(), chunked path up to executor.submit of every chunk request.
TableSubmitChunks ==
    /\ tbl.pc = "call"
    /\ tbl.n > tbl.chunk_size
    /\ LET k == NumChunks(tbl.n, tbl.chunk_size)
           empty == [i \in 0..(tbl.n - 1) |-> [j \in 0..(tbl.n - 1) |-> NoneValue]]
       IN  tbl' = [tbl EXCEPT !.pc = "pool", !.chunks = k,
                      !.outcome = [r \in 1..(k * k) |-> "queued"],
                      !.durations = empty, !.distances = empty,
                      !.writes = [i \in 0..(tbl.n - 1) |-> [j \in 0..(tbl.n - 1) |-> 0]]]
    /\ UNCHANGED <<http, bal, seq, vrp, zon, ovl, orc>>

\* A free worker of the pool takes the next queued request (FIFO work queue).
WorkerTake ==
    /\ tbl.pc = "pool"
    /\ tbl.started < tbl.chunks * tbl.chunks
    /\ Cardinality(tbl.running) < tbl.max_parallel
    /\ tbl' = [tbl EXCEPT !.started = @ + 1, !.running = @ \cup {tbl.started + 1},
                          !.outcome[tbl.started + 1] = "running"]
    /\ UNCHANGED <<http, bal, seq, vrp, zon, ovl, orc>>

\* A running _process_chunk_request ends (with the answer, or with None after
\* an exception) and the as_completed loop of table() consumes its result.
\* Only that loop, on the calling thread, touches the matrices and counters.
ChunkCompleted ==
    /\ tbl.pc = "pool"
    /\ \E r \in tbl.running, ok \in BOOLEAN :
        LET k == tbl.chunks
            base == [tbl EXCEPT !.running = @ \ {r}, !.completed = @ + 1]
        IN  tbl' =
              IF ok
              THEN [base EXCEPT
                      !.outcome[r] = "ok",
                      !.durations = Stitch(@, ChunkAnswer("durations", TblCoords(tbl.n), tbl.chunk_size, r, k),
                                           tbl.n, tbl.chunk_size, r, k),
                      !.distances = Stitch(@, ChunkAnswer("distances", TblCoords(tbl.n), tbl.chunk_size, r, k),
                                           tbl.n, tbl.chunk_size, r, k),
                      !.writes = [i \in 0..(tbl.n - 1) |-> [j \in 0..(tbl.n - 1) |->
                                    IF <<i, j>> \in CellsOf(tbl.n, tbl.chunk_size, r, k)
                                    THEN @[i][j] + 1 ELSE @[i][j]]]]
              ELSE [base EXCEPT !.outcome[r] = "failed", !.failed_chunks = @ + 1]
    /\ UNCHANGED <<http, bal, seq, vrp, zon, ovl, orc>>

\* After the pool has drained: the failure-rate test and the return.
TableFinish ==
    /\ tbl.pc = "pool"
    /\ tbl.completed = tbl.chunks * tbl.chunks
    /\ tbl' = IF CriticalFailure(tbl.failed_chunks, tbl.chunks * tbl.chunks)
              THEN [tbl EXCEPT !.pc = "raised", !.raised = "ConnectionError"]
              ELSE [tbl EXCEPT !.pc = "returned"]
    /\ UNCHANGED <<http, bal, seq, vrp, zon, ovl, orc>>

TblNext ==
    \/ TableSingleRequest
    \/ TableSubmitChunks
    \/ WorkerTake
    \/ ChunkCompleted
    \/ TableFinish

SpecTable == TblInit /\ [][TblNext]_vars

TblChunked == tbl.pc \in {"returned", "raised"} /\ tbl.chunks > 0

TblFailedCells ==
    UNION {CellsOf(tbl.n, tbl.chunk_size, r, tbl.chunks) :
              r \in {q \in 1..(tbl.chunks * tbl.chunks) : tbl.outcome[q] = "failed"}}

\* C8: a chunked table() call whose chunk requests all succeed returns n x n
\* matrices in which every cell (i, j) holds the oracle's duration and distance
\* from coordinate i to coordinate j, every cell was filled by exactly one
\* chunk answer, and every diagonal cell is 0.
C8_ChunkStitching ==
    (TblChunked /\ tbl.pc = "returned" /\ tbl.failed_chunks = 0) =>
        \A i \in 0..(tbl.n - 1), j \in 0..(tbl.n - 1) :
            /\ tbl.durations[i][j] = OracleDuration(i + 1, j + 1)
            /\ tbl.distances[i][j] = OracleDistance(i + 1, j + 1)
            /\ tbl.writes[i][j] = 1
            /\ (i = j => tbl.durations[i][j] = 0 /\ tbl.distances[i][j] = 0)

\* C8 witness: a call over more coordinates than one request may carry has
\* returned with no failed chunk, the last chunk being shorter than the first.
C8_Witness ==
    /\ TblChunked /\ tbl.pc = "returned" /\ tbl.failed_chunks = 0
    /\ tbl.n > tbl.chunk_size /\ tbl.n % tbl.chunk_size # 0

MaxBalCustomers == 4

\* Zone ids, in the order a zoning run numbers them.
ZoneIds == <<"A", "B", "C">>

\* Customers sit on one meridian (longitude 0); a latitude is one of these.
LatChoices == {1, 2}

\* tolerance, in percent (0.2 is the default).
TolerancePercents == {0, 20}

Abs(x) == IF x < 0 THEN 0 - x ELSE x

\* _build_zone_map: zone -> customers in assignment order; customers missing
\* from the customer list are skipped. A zone without a known customer gets
\* no entry. zone_order is the insertion order of the dict's keys.
RECURSIVE ZoneOrderFrom(_, _, _, _)
ZoneOrderFrom(assignments, known, i, acc) ==
    IF i > Len(assignments) THEN acc
    ELSE IF i \in known /\ assignments[i] \notin SeqToSet(acc)
         THEN ZoneOrderFrom(assignments, known, i + 1, Append(acc, assignments[i]))
         ELSE ZoneOrderFrom(assignments, known, i + 1, acc)

\* The members of a zone with the customers missing from the list kept.
MembersOfAll(assignments, known, zone) ==
    SelectSeq([i \in 1..Len(assignments) |-> i], LAMBDA i : assignments[i] = zone)

MembersOf(assignments, known, zone) ==
    SelectSeq([i \in 1..Len(assignments) |-> i],
              LAMBDA i : i \in known /\ assignments[i] = zone)

BuildZoneMap(assignments, known) ==
    LET order == ZoneOrderFrom(assignments, known, 1, <<>>)
    IN  [order |-> order,
         members |-> [z \in SeqToSet(order) |-> MembersOf(assignments, known, z)]]

\* sum(counts.values())
RECURSIVE TotalOf(_, _)
TotalOf(counts, order) ==
    IF order = <<>> THEN 0 ELSE counts[Head(order)] + TotalOf(counts, Tail(order))

\* _compute_bounds, on exact fractions: avg = total / zones,
\* upper = avg * (1 + tolerance), lower = avg * (1 - tolerance).
AboveUpper(count, total, zones, tol) ==
    count * Max2(1, zones) * 100 > total * (100 + tol)

BelowLowerFlipped(count, total, zones, tol) ==
    count * Max2(1, zones) * 100 > total * (100 - tol)

BelowLower(count, total, zones, tol) ==
    count * Max2(1, zones) * 100 < total * (100 - tol)

\* max(counts.items(), key=count) / min(...): the first zone, in dict order,
\* with the largest / smallest count.
RECURSIVE FirstMax(_, _, _)
FirstMax(counts, order, best) ==
    IF order = <<>> THEN best
    ELSE FirstMax(counts, Tail(order),
                  IF counts[Head(order)] > counts[best] THEN Head(order) ELSE best)

\* The last zone, in dict order, with the smallest count.
RECURSIVE LastMin(_, _, _)
LastMin(counts, order, best) ==
    IF order = <<>> THEN best
    ELSE LastMin(counts, Tail(order),
                 IF counts[Head(order)] <= counts[best] THEN Head(order) ELSE best)

RECURSIVE FirstMin(_, _, _)
FirstMin(counts, order, best) ==
    IF order = <<>> THEN best
    ELSE FirstMin(counts, Tail(order),
                  IF counts[Head(order)] < counts[best] THEN Head(order) ELSE best)

\* _zone_centroid of customers on the meridian, as the fraction num/den of
\* latitudes; (0.0, 0.0) for an empty zone.
Centroid(lat, members) ==
    IF members = <<>> THEN [num |-> 0, den |-> 1]
    ELSE [num |-> SumSeq([k \in 1..Len(members) |-> lat[members[k]]]), den |-> Len(members)]

\* customer_distance: haversine to the centroid. On one meridian it grows with
\* |latitude - centroid latitude|, kept here as a multiple of 1/den degrees.
CustomerDistance(lat, c, centroid) == Abs(lat[c] * centroid.den - centroid.num)

\* min(candidates, key=customer_distance): first candidate at least distance.
RECURSIVE Closest(_, _, _, _)
Closest(lat, candidates, centroid, best) ==
    IF candidates = <<>> THEN best
    ELSE Closest(lat, Tail(candidates), centroid,
                 IF CustomerDistance(lat, Head(candidates), centroid)
                        < CustomerDistance(lat, best, centroid)
                 THEN Head(candidates) ELSE best)

\* list.remove(x): drop the first occurrence.
RemoveFirst(s, x) ==
    LET idx == CHOOSE i \in 1..Len(s) : s[i] = x /\ \A j \in 1..(i - 1) : s[j] # x
    IN  [k \in 1..(Len(s) - 1) |-> IF k < idx THEN s[k] ELSE s[k + 1]]

\* Assignment maps in which zone ids first appear in the order A, B, C (zone
\* ids are opaque, so every other map is one of these up to renaming).
RECURSIVE GrowthMaps(_)
GrowthMaps(n) ==
    IF n = 0 THEN {<<>>}
    ELSE {Append(m, z) : m \in GrowthMaps(n - 1), z \in SeqToSet(ZoneIds)} \cap
         {m \in [1..n -> SeqToSet(ZoneIds)] :
             \A i \in 1..n : \A zi \in 2..Len(ZoneIds) :
                 m[i] = ZoneIds[zi] => \E j \in 1..(i - 1) : m[j] = ZoneIds[zi - 1]}

BalInit ==
    /\ \E n \in 1..MaxBalCustomers :
       \E a \in GrowthMaps(n), lat \in [1..n -> LatChoices], tol \in TolerancePercents,
          mi \in 0..1, unknown \in {{}, {n}}, tz \in 1..Len(ZoneIds) :
        /\ SeqToSet(a) \subseteq {ZoneIds[k] : k \in 1..tz}
        /\ bal = [pc |-> "start", input |-> a, assignments |-> a, lat |-> lat,
                  known |-> (1..n) \ unknown, target_zones |-> tz,
                  tolerance |-> tol, max_iterations |-> mi,
                  zone_order |-> <<>>, zone_map |-> <<>>, counts |-> <<>>,
                  counts_before |-> <<>>, transfers |-> <<>>, iterations |-> 0]
    /\ http = Off /\ tbl = Off /\ seq = Off /\ vrp = Off /\ zon = Off /\ ovl = Off /\ orc = Off

\* balance_assignments up to the loop: zone map, counts, iteration cap
\* (max_iterations or len(assignments)); returns at once when no zone is left.
BalanceBegin ==
    /\ bal.pc = "start"
    /\ LET zm == BuildZoneMap(bal.assignments, bal.known)
           counts == [z \in SeqToSet(zm.order) |-> Len(zm.members[z])]
       IN  bal' = [bal EXCEPT
                     !.pc = IF zm.order = <<>> THEN "done" ELSE "loop",
                     !.zone_order = zm.order, !.zone_map = zm.members,
                     !.counts = counts, !.counts_before = counts,
                     !.max_iterations = IF @ = 0 THEN Len(bal.assignments) ELSE @]
    /\ UNCHANGED <<http, tbl, seq, vrp, zon, ovl, orc>>

\* One pass of the for loop: break when balanced, else move one customer.
BalanceIterate ==
    /\ bal.pc = "loop"
    /\ bal.iterations < bal.max_iterations
    /\ LET order == bal.zone_order
           over == FirstMax(bal.counts, order, Head(order))
           under == FirstMin(bal.counts, order, Head(order))
           total == TotalOf(bal.counts, order)
           balanced == \/ ~AboveUpper(bal.counts[over], total, Len(order), bal.tolerance)
                       \/ ~BelowLower(bal.counts[under], total, Len(order), bal.tolerance)
           candidates == bal.zone_map[over]
           centroid == Centroid(bal.lat, bal.zone_map[under])
           mover == Closest(bal.lat, candidates, centroid, Head(candidates))
       IN  IF balanced \/ candidates = <<>>
           THEN bal' = [bal EXCEPT !.pc = "done"]
           ELSE bal' = [bal EXCEPT
                          !.iterations = @ + 1,
                          !.zone_map[over] = RemoveFirst(@, mover),
                          !.zone_map[under] = Append(@, mover),
                          !.counts[over] = @ - 1,
                          !.counts[under] = @ + 1,
                          !.assignments[mover] = under,
                          !.transfers = Append(@, [customer_id |-> mover, from_zone |-> over,
                                                   to_zone |-> under,
                                                   distance |-> <<CustomerDistance(bal.lat, mover, centroid),
                                                                  centroid.den>>])]
    /\ UNCHANGED <<http, tbl, seq, vrp, zon, ovl, orc>>

\* The loop ran max_iterations passes: fall through to the return.
BalanceReturn ==
    /\ bal.pc = "loop"
    /\ bal.iterations >= bal.max_iterations
    /\ bal' = [bal EXCEPT !.pc = "done"]
    /\ UNCHANGED <<http, tbl, seq, vrp, zon, ovl, orc>>

BalNext == BalanceBegin \/ BalanceIterate \/ BalanceReturn

SpecBalance == BalInit /\ [][BalNext]_vars

\* Customers (known to the customer list) a zone held in the input map.
BalInputCount(zone) ==
    Cardinality({i \in bal.known : bal.input[i] = zone})

BalFinalCount(zone) ==
    Cardinality({i \in bal.known : bal.assignments[i] = zone})

\* C5 (as stated): whenever, among the zones of the zoning run (a zone may hold
\* no customer, as zone B in "3 customers in A and 0 in B"), one zone holds more
\* than avg*(1+tolerance) customers and another fewer than avg*(1-tolerance),
\* the pass records a transfer from an overloaded to an underloaded zone and the
\* count difference of those two zones does not grow.
C5_TransferWhenUnbalancedAsStated ==
    bal.pc = "done" =>
        LET zones == {ZoneIds[k] : k \in 1..bal.target_zones}
            total == Cardinality(bal.known)
            over(z) == BalInputCount(z) * bal.target_zones * 100 > total * (100 + bal.tolerance)
            under(z) == BalInputCount(z) * bal.target_zones * 100 < total * (100 - bal.tolerance)
        IN  (\E za \in zones, zb \in zones : over(za) /\ under(zb)) =>
                \E k \in 1..Len(bal.transfers) :
                    LET t == bal.transfers[k]
                    IN  /\ over(t.from_zone) /\ under(t.to_zone)
                        /\ Abs(BalFinalCount(t.from_zone) - BalFinalCount(t.to_zone))
                              <= Abs(BalInputCount(t.from_zone) - BalInputCount(t.to_zone))

\* C5 (amended): the same, over the zones that hold at least one customer of
\* the assignment map (only those enter the zone map and the average): the
\* first transfer goes from a zone above the upper bound to a zone below the
\* lower bound and the count difference of these two zones does not grow.
C5_TransferWhenUnbalanced ==
    bal.pc = "done" =>
        LET zones == {z \in SeqToSet(ZoneIds) : BalInputCount(z) >= 1}
            total == Cardinality(bal.known)
            nz == Cardinality(zones)
            over(z) == BalInputCount(z) * nz * 100 > total * (100 + bal.tolerance)
            under(z) == BalInputCount(z) * nz * 100 < total * (100 - bal.tolerance)
        IN  (\E za \in zones, zb \in zones : over(za) /\ under(zb)) =>
                /\ bal.transfers # <<>>
                /\ LET t == bal.transfers[1]
                   IN  /\ over(t.from_zone) /\ under(t.to_zone)
                       /\ Abs(BalFinalCount(t.from_zone) - BalFinalCount(t.to_zone))
                             <= Abs(BalInputCount(t.from_zone) - BalInputCount(t.to_zone))

\* C5 witness: the pass has ended on 3 customers in zone A and 1 in zone B
\* with tolerance 0.2, having moved a customer from A to B.
C5_Witness ==
    /\ bal.pc = "done" /\ bal.tolerance = 20
    /\ BalInputCount("A") = 3 /\ BalInputCount("B") = 1 /\ BalInputCount("C") = 0
    /\ bal.transfers # <<>>
    /\ bal.transfers[1].from_zone = "A" /\ bal.transfers[1].to_zone = "B"

\* ========================================================================
\* Full VRP: solve_vrp
\* ========================================================================
\* Largest number of customers handed to solve_vrp.
MaxVrpCustomers == 3

LARGE_PENALTY == 999999999

\* Oracle legs between the depot (node 0) and a customer, in metres; NoneValue
\* is the oracle's null. Legs between two customers are InterLeg metres. The
\* oracle's durations are SecondsPerKm seconds for every 1000 metres.
NearLeg == 20000

FarLeg == 60000

InterLeg == 10000

SecondsPerKm == 90

LegChoices == {NearLeg, FarLeg, NoneValue}

\* SolverConstraints values explored.
MaxCustomersChoices == {1, 2}

MinCustomersChoices == {1, 2}

DurationLimitsMin == {0, 60, 600}

DistanceLimitsKm == {50, 200}

WorkingDays == <<"SUN", "MON">>

\* osrm_table["distances"][i][j] and ["durations"][i][j] for depot legs `legs`.
OsrmDistance(legs, i, j) ==
    IF i = j THEN 0
    ELSE IF i = 0 THEN legs[j]
    ELSE IF j = 0 THEN legs[i]
    ELSE InterLeg

OsrmDuration(legs, i, j) ==
    IF OsrmDistance(legs, i, j) = NoneValue THEN NoneValue
    ELSE (OsrmDistance(legs, i, j) * SecondsPerKm) \div 1000

\* _prepare_matrices: None becomes LARGE_PENALTY; cell [0][0] is forced to 0.
PrepareCell(value, i, j) ==
    IF i = 0 /\ j = 0 THEN 0
    ELSE IF value = NoneValue THEN LARGE_PENALTY ELSE value

DistanceMatrix(legs, i, j) == PrepareCell(OsrmDistance(legs, i, j), i, j)

DurationMatrix(legs, i, j) == PrepareCell(OsrmDuration(legs, i, j), i, j)

ValidRoutesFromDepotAll(legs) == Len(legs)

\* Lines 101-104: customers with a non-penalty distance and duration from the depot.
ValidRoutesFromDepot(legs) ==
    Cardinality({i \in 1..Len(legs) :
        DistanceMatrix(legs, 0, i) < LARGE_PENALTY /\ DurationMatrix(legs, 0, i) < LARGE_PENALTY})

\* _build_manager: max(1, ceil((node_count - 1) / max_customers_per_route)).
VehicleCount(node_count, max_customers) ==
    Max2(1, (node_count - 1 + max_customers - 1) \div max_customers)

\* _seconds_from_minutes and int(km * 1000).
SecondsFromMinutes(minutes) == minutes * 60

MetresFromKm(km) == km * 1000

\* Lines 202-211: worst reachable depot -> customer leg (0 when there is none).
RECURSIVE MaxReachable(_, _, _)
MaxReachable(legs, i, acc) ==
    IF i > Len(legs) THEN acc
    ELSE MaxReachable(legs, i + 1, IF legs[i] < LARGE_PENALTY THEN Max2(acc, legs[i]) ELSE acc)

MaxDepotDistance(legs) ==
    MaxReachable([i \in 1..Len(legs) |-> DistanceMatrix(legs, 0, i)], 1, 0)

MaxDepotDuration(legs) ==
    MaxReachable([i \in 1..Len(legs) |-> DurationMatrix(legs, 0, i)], 1, 0)

\* The relaxed distance bound without its 100 km floor.
RelaxedDistanceNoFloor(max_km, legs) ==
    Max2((3 * MetresFromKm(max_km)) \div 2, (5 * MaxDepotDistance(legs)) \div 2)

\* Lines 215-224, in metres and seconds:
\* max(1.5 x original, 2.5 x worst depot leg, 100 km / 900 min).
RelaxedDistanceM(max_km, legs) ==
    Max3((3 * MetresFromKm(max_km)) \div 2, (5 * MaxDepotDistance(legs)) \div 2, 100000)

RelaxedDurationS(max_min, legs) ==
    Max3((3 * SecondsFromMinutes(max_min)) \div 2, (5 * MaxDepotDuration(legs)) \div 2,
         SecondsFromMinutes(900))

\* A vehicle route is the sequence of customer nodes between two depot visits.
\* The node after position k (the depot after the last stop).
NodeAt(route, k) == IF k >= 1 /\ k <= Len(route) THEN route[k] ELSE 0

\* Cumulative value of a dimension on arrival at position k (Len+1 = the end).
RECURSIVE DistanceCumul(_, _, _)
DistanceCumul(legs, route, k) ==
    IF k = 0 THEN 0
    ELSE DistanceCumul(legs, route, k - 1)
           + DistanceMatrix(legs, NodeAt(route, k - 1), NodeAt(route, k))

RECURSIVE TimeCumul(_, _, _)
TimeCumul(legs, route, k) ==
    IF k = 0 THEN 0
    ELSE TimeCumul(legs, route, k - 1)
           + DurationMatrix(legs, NodeAt(route, k - 1), NodeAt(route, k))

\* The three dimensions of the routing model (slack 0, start cumul 0).
CapacityOkPlusOne(route, max_customers) == Len(route) <= max_customers + 1

CapacityOk(route, max_customers) == Len(route) <= max_customers

\* A routing model without its Distance dimension.
RouteFeasibleNoDistance(legs, route, max_customers, time_cap, dist_cap) ==
    /\ CapacityOk(route, max_customers)
    /\ TimeCumul(legs, route, Len(route) + 1) <= time_cap

RouteFeasible(legs, route, max_customers, time_cap, dist_cap) ==
    /\ CapacityOk(route, max_customers)
    /\ TimeCumul(legs, route, Len(route) + 1) <= time_cap
    /\ DistanceCumul(legs, route, Len(route) + 1) <= dist_cap

\* Every ordering of a set of nodes.
RECURSIVE Orderings(_)
Orderings(S) ==
    IF S = {} THEN {<<>>}
    ELSE UNION {{<<x>> \o rest : rest \in Orderings(S \ {x})} : x \in S}

\* Every assignment the routing model admits: v vehicle routes that visit
\* each node of S exactly once (every node is mandatory), each route feasible.
RECURSIVE FeasibleAssignments(_, _, _, _, _, _)
FeasibleAssignments(legs, S, v, max_customers, time_cap, dist_cap) ==
    IF v = 0 THEN (IF S = {} THEN {<<>>} ELSE {})
    ELSE UNION {
           UNION {
             {<<route>> \o rest :
                 rest \in FeasibleAssignments(legs, S \ T, v - 1, max_customers, time_cap, dist_cap)}
             : route \in {r \in Orderings(T) :
                             RouteFeasible(legs, r, max_customers, time_cap, dist_cap)}}
           : T \in SUBSET S}

\* The stops of a vehicle route with the last node left out.
StopsOfWithoutLast(legs, route) ==
    [k \in 1..(Len(route) - 1) |->
        [customer_id |-> route[k],
         sequence |-> k,
         arrival_s |-> TimeCumul(legs, route, k),
         distance_from_prev_m |-> DistanceMatrix(legs, route[k], NodeAt(route, k + 1))]]

\* Lines 322-346: the stops of one vehicle route. The stop of the node at
\* position k records the time cumul of that node and the matrix distance of
\* the step leaving it (step_distance: node_index -> next_node).
StopsOf(legs, route) ==
    [k \in 1..Len(route) |->
        [customer_id |-> route[k],
         sequence |-> k,
         arrival_s |-> TimeCumul(legs, route, k),
         distance_from_prev_m |-> DistanceMatrix(legs, route[k], NodeAt(route, k + 1))]]

\* Lines 354-360.
ViolationsOf(distance_m, duration_s, stops, c) ==
    [distance_m |-> IF distance_m > MetresFromKm(c.max_distance_per_route_km)
                    THEN distance_m - MetresFromKm(c.max_distance_per_route_km) ELSE 0,
     duration_s |-> IF duration_s > SecondsFromMinutes(c.max_route_duration_minutes)
                    THEN duration_s - SecondsFromMinutes(c.max_route_duration_minutes) ELSE 0,
     min_customers |-> IF stops < c.min_customers_per_route
                       THEN c.min_customers_per_route - stops ELSE 0]

\* Lines 318-370: one RoutePlan per vehicle route with at least one stop.
RECURSIVE PlansOf(_, _, _, _, _)
PlansOf(legs, assignment, vehicle, c, plans) ==
    IF vehicle > Len(assignment) THEN plans
    ELSE LET route == assignment[vehicle]
             stops == StopsOf(legs, route)
             dist == DistanceCumul(legs, route, Len(route) + 1)
             dur == TimeCumul(legs, route, Len(route) + 1)
             plan == [route_no |-> vehicle,
                      day |-> WorkingDays[(Len(plans) % Len(WorkingDays)) + 1],
                      total_distance_m |-> dist,
                      total_duration_s |-> dur,
                      customer_count |-> Len(stops),
                      stops |-> stops,
                      constraint_violations |-> ViolationsOf(dist, dur, Len(stops), c)]
         IN  PlansOf(legs, assignment, vehicle + 1, c,
                     IF stops # <<>> THEN Append(plans, plan) ELSE plans)

VrpInit ==
    /\ \E n \in 1..MaxVrpCustomers :
       \E legs \in [1..n -> LegChoices], mc \in MaxCustomersChoices, mn \in MinCustomersChoices,
          md \in DurationLimitsMin, mk \in DistanceLimitsKm :
        vrp = [pc |-> "start", legs |-> legs,
               constraints |-> [max_customers_per_route |-> mc, min_customers_per_route |-> mn,
                                max_route_duration_minutes |-> md, max_distance_per_route_km |-> mk],
               solves |-> 0, assignment |-> <<>>, found |-> FALSE,
               time_cap |-> 0, dist_cap |-> 0, used_relaxed_constraints |-> FALSE,
               plans |-> <<>>, status |-> "none", reason |-> "none", raised |-> "none"]
    /\ http = Off /\ tbl = Off /\ bal = Off /\ seq = Off /\ zon = Off /\ ovl = Off /\ orc = Off

\* Lines 86-131: matrices, validation, routing model with the original bounds.
VrpPrepare ==
    /\ vrp.pc = "start"
    /\ vrp' = IF ValidRoutesFromDepot(vrp.legs) = 0
              THEN [vrp EXCEPT !.pc = "raised", !.raised = "ValueError:no_reachable_customers"]
              ELSE [vrp EXCEPT !.pc = "solve",
                       !.time_cap = SecondsFromMinutes(vrp.constraints.max_route_duration_minutes),
                       !.dist_cap = MetresFromKm(vrp.constraints.max_distance_per_route_km)]
    /\ UNCHANGED <<http, tbl, bal, seq, zon, ovl, orc>>

\* What routing.SolveWithParameters may return under the current bounds: one
\* of the assignments the model admits, or nothing (no assignment exists, or
\* the search found none within its time limit).
SolverAnswers ==
    LET n == Len(vrp.legs)
        v == VehicleCount(n + 1, vrp.constraints.max_customers_per_route)
    IN  {[found |-> TRUE, assignment |-> a] :
            a \in FeasibleAssignments(vrp.legs, 1..n, v, vrp.constraints.max_customers_per_route,
                                      vrp.time_cap, vrp.dist_cap)}
        \cup {[found |-> FALSE, assignment |-> <<>>]}

\* Line 186: the first solve; lines 194-276 rebuild the model with the relaxed
\* duration and distance bounds when it found nothing.
VrpSolve ==
    /\ vrp.pc = "solve"
    /\ \E ans \in SolverAnswers :
        vrp' = IF ans.found
               THEN [vrp EXCEPT !.pc = "extract", !.solves = @ + 1, !.found = TRUE,
                                !.assignment = ans.assignment]
               ELSE [vrp EXCEPT !.pc = "solve_relaxed", !.solves = @ + 1,
                        !.time_cap = RelaxedDurationS(vrp.constraints.max_route_duration_minutes, vrp.legs),
                        !.dist_cap = RelaxedDistanceM(vrp.constraints.max_distance_per_route_km, vrp.legs)]
    /\ UNCHANGED <<http, tbl, bal, seq, zon, ovl, orc>>

\* Lines 279-316: the relaxed solve and the infeasible result.
VrpSolveRelaxed ==
    /\ vrp.pc = "solve_relaxed"
    /\ \E ans \in SolverAnswers :
        vrp' = IF ans.found
               THEN [vrp EXCEPT !.pc = "extract", !.solves = @ + 1, !.found = TRUE,
                                !.assignment = ans.assignment, !.used_relaxed_constraints = TRUE]
               ELSE [vrp EXCEPT !.pc = "done", !.solves = @ + 1, !.status = "infeasible",
                                !.reason = "no feasible solution even with relaxed constraints"]
    /\ UNCHANGED <<http, tbl, bal, seq, zon, ovl, orc>>

\* Lines 318-399: plans and metadata of a found assignment.
VrpExtract ==
    /\ vrp.pc = "extract"
    /\ vrp' = [vrp EXCEPT !.pc = "done", !.status = "optimal",
                          !.plans = PlansOf(vrp.legs, vrp.assignment, 1, vrp.constraints, <<>>)]
    /\ UNCHANGED <<http, tbl, bal, seq, zon, ovl, orc>>

VrpNext == VrpPrepare \/ VrpSolve \/ VrpSolveRelaxed \/ VrpExtract

SpecVrp == VrpInit /\ [][VrpNext]_vars

\* The routing problem admits no assignment, not even under the relaxed bounds.
VrpUnsatisfiable ==
    FeasibleAssignments(vrp.legs, 1..Len(vrp.legs),
        VehicleCount(Len(vrp.legs) + 1, vrp.constraints.max_customers_per_route),
        vrp.constraints.max_customers_per_route,
        RelaxedDurationS(vrp.constraints.max_route_duration_minutes, vrp.legs),
        RelaxedDistanceM(vrp.constraints.max_distance_per_route_km, vrp.legs)) = {}

VrpSomeReachable == \E i \in 1..Len(vrp.legs) : vrp.legs[i] # NoneValue

VrpTerminal == vrp.pc \in {"done", "raised"}

\* C2: every RoutePlan returned by solve_vrp, whether found with the original
\* or with the relaxed bounds, has customer_count <= max_customers_per_route
\* (and customer_count is the number of its stops).
C2_PlanWithinMaxCustomers ==
    (vrp.pc = "done") =>
        \A p \in 1..Len(vrp.plans) :
            /\ vrp.plans[p].customer_count <= vrp.constraints.max_customers_per_route
            /\ vrp.plans[p].customer_count = Len(vrp.plans[p].stops)

\* A relaxed-retry result for 3 customers and max_customers_per_route = 2:
\* two plans, one of them full.
C2_Witness ==
    /\ vrp.pc = "done"
    /\ vrp.used_relaxed_constraints
    /\ Len(vrp.legs) = 3
    /\ vrp.constraints.max_customers_per_route = 2
    /\ Len(vrp.plans) = 2
    /\ \E p \in 1..2 : vrp.plans[p].customer_count = 2

MaxSeqCustomers == 3

SeqRouteIds == <<"R1", "R2">>

SeqLegChoices == {NearLeg, NoneValue}

\* Upper bound of the Time dimension of the per-route model (line 123).
SeqTimeBound == 999999999

\* The customers of `members` that belong to route r, for a membership map
\* (0 = in no route).
SeqMembers(membership, r) == {c \in DOMAIN membership : membership[c] = r}

RouteIndexMapUnfiltered(route_customers, indexed) == route_customers

\* Lines 77-85: route_index_map without its depot entry: the route's
\* customers that are keys of customer_to_index, in the supplied order.
RECURSIVE RouteIndexMap(_, _)
RouteIndexMap(route_customers, indexed) ==
    IF route_customers = <<>> THEN <<>>
    ELSE IF Head(route_customers) \in indexed
         THEN <<Head(route_customers)>> \o RouteIndexMap(Tail(route_customers), indexed)
         ELSE RouteIndexMap(Tail(route_customers), indexed)

\* Lines 102-140: what the single-vehicle solve may return: a visiting order
\* of the mapped customers whose time cumul stays within the bound, or nothing.
SeqSolverAnswers(legs, mapped) ==
    {[found |-> TRUE, order |-> o] :
        o \in {r \in Orderings(SeqToSet(mapped)) :
                  TimeCumul(legs, r, Len(r) + 1) <= SeqTimeBound}}
    \cup {[found |-> FALSE, order |-> <<>>]}

\* Lines 146-168: stops of the fallback path. seq counts every supplied
\* customer, indexed or not; prev_idx starts at the depot.
RECURSIVE FallbackStops(_, _, _, _, _, _)
FallbackStops(legs, route_customers, indexed, seqno, prev_idx, acc) ==
    IF seqno > Len(route_customers) THEN acc
    ELSE LET customer == route_customers[seqno]
         IN  IF customer \notin indexed
             THEN FallbackStops(legs, route_customers, indexed, seqno + 1, prev_idx, acc)
             ELSE LET dist == DistanceMatrix(legs, prev_idx, customer)
                      dur == DurationMatrix(legs, prev_idx, customer)
                      total == IF acc = <<>> THEN 0 ELSE acc[Len(acc)].arrival_s
                  IN  FallbackStops(legs, route_customers, indexed, seqno + 1, customer,
                          Append(acc, [customer_id |-> customer,
                                       sequence |-> seqno,
                                       arrival_s |-> total + dur,
                                       distance_from_prev_m |-> dist]))

\* The fallback plan with the route's customers taken in ascending id order.
FallbackPlanAscending(legs, route, indexed) ==
    LET ids == SeqToSet(route.customers)
        asc == CHOOSE o \in Orderings(ids) : \A i, j \in 1..Len(o) : i < j => o[i] < o[j]
        stops == FallbackStops(legs, asc, indexed, 1, 0, <<>>)
    IN  [route_id |-> route.route_id,
         day |-> route.day,
         total_distance_m |-> SumSeq([k \in 1..Len(stops) |-> stops[k].distance_from_prev_m]),
         total_duration_s |-> IF stops = <<>> THEN 0 ELSE stops[Len(stops)].arrival_s,
         customer_count |-> Len(stops),
         stops |-> stops]

\* Lines 142-181: the fallback plan; its totals are the sums over the stops.
FallbackPlan(legs, route, indexed) ==
    LET stops == FallbackStops(legs, route.customers, indexed, 1, 0, <<>>)
    IN  [route_id |-> route.route_id,
         day |-> route.day,
         total_distance_m |-> SumSeq([k \in 1..Len(stops) |-> stops[k].distance_from_prev_m]),
         total_duration_s |-> IF stops = <<>> THEN 0 ELSE stops[Len(stops)].arrival_s,
         customer_count |-> Len(stops),
         stops |-> stops]

\* Lines 191-218: stops of a solved route. previous_index is taken before
\* the step to the next node, so prev_route_idx is the stop's own node: the
\* step distance and duration are the matrix cell [node][node].
SolvedStops(legs, order) ==
    [k \in 1..Len(order) |->
        [customer_id |-> order[k],
         sequence |-> k,
         arrival_s |-> TimeCumul(legs, order, k),
         distance_from_prev_m |-> DistanceMatrix(legs, order[k], order[k])]]

\* Lines 183-238: the solved plan; totals are the step sums plus the return leg.
SolvedPlan(legs, route, order) ==
    LET stops == SolvedStops(legs, order)
        last == order[Len(order)]
    IN  [route_id |-> route.route_id,
         day |-> route.day,
         total_distance_m |->
             SumSeq([k \in 1..Len(stops) |-> stops[k].distance_from_prev_m])
               + DistanceMatrix(legs, last, 0),
         total_duration_s |->
             SumSeq([k \in 1..Len(order) |-> DurationMatrix(legs, order[k], order[k])])
               + DurationMatrix(legs, last, 0),
         customer_count |-> Len(stops),
         stops |-> stops]

SeqInit ==
    /\ \E membership \in [1..MaxSeqCustomers -> 0..Len(SeqRouteIds)],
          indexed \in SUBSET (1..MaxSeqCustomers),
          legs \in [1..MaxSeqCustomers -> SeqLegChoices] :
       \E orders \in [1..Len(SeqRouteIds) -> UNION {Orderings(T) : T \in SUBSET (1..MaxSeqCustomers)}] :
          /\ \A r \in 1..Len(SeqRouteIds) : SeqToSet(orders[r]) = SeqMembers(membership, r)
                                             /\ Len(orders[r]) = Cardinality(SeqMembers(membership, r))
          /\ seq = [pc |-> "loop",
                    route_assignments |->
                        [r \in 1..Len(SeqRouteIds) |->
                            [route_id |-> SeqRouteIds[r],
                             day |-> WorkingDays[((r - 1) % Len(WorkingDays)) + 1],
                             customers |-> orders[r]]],
                    customer_to_index |-> indexed,
                    legs |-> legs,
                    route_idx |-> 1,
                    plans |-> <<>>,
                    fallback_routes |-> {},
                    status |-> "none"]
    /\ http = Off /\ tbl = Off /\ bal = Off /\ vrp = Off /\ zon = Off /\ ovl = Off /\ orc = Off

\* Lines 71-238: one pass of the loop over route_assignments.
SeqRoute ==
    /\ seq.pc = "loop"
    /\ seq.route_idx <= Len(seq.route_assignments)
    /\ LET route == seq.route_assignments[seq.route_idx]
           mapped == RouteIndexMap(route.customers, seq.customer_to_index)
       IN  IF route.customers = <<>> \/ mapped = <<>>
           THEN seq' = [seq EXCEPT !.route_idx = @ + 1]
           ELSE \E ans \in SeqSolverAnswers(seq.legs, mapped) :
                  seq' = IF ans.found
                         THEN [seq EXCEPT !.route_idx = @ + 1,
                                  !.plans = Append(@, SolvedPlan(seq.legs, route, ans.order))]
                         ELSE [seq EXCEPT !.route_idx = @ + 1,
                                  !.plans = Append(@, FallbackPlan(seq.legs, route, seq.customer_to_index)),
                                  !.fallback_routes = @ \cup {route.route_id}]
    /\ UNCHANGED <<http, tbl, bal, vrp, zon, ovl, orc>>

\* Lines 240-247.
SeqReturn ==
    /\ seq.pc = "loop"
    /\ seq.route_idx > Len(seq.route_assignments)
    /\ seq' = [seq EXCEPT !.pc = "done", !.status = "optimal"]
    /\ UNCHANGED <<http, tbl, bal, vrp, zon, ovl, orc>>

SeqNext == SeqRoute \/ SeqReturn

SpecSeq == SeqInit /\ [][SeqNext]_vars

\* Ids of the stops of a plan.
StopIds(plan) == {plan.stops[k].customer_id : k \in 1..Len(plan.stops)}

\* The plans returned for a route id.
PlansFor(route_id) == {p \in 1..Len(seq.plans) : seq.plans[p].route_id = route_id}

\* C4 as stated: for every supplied route id solve_sequence_only returns a
\* plan whose stop ids are exactly the customers supplied for that route; no
\* customer is dropped or moved and no supplied route is omitted.
C4_MembershipPreservedAsStated ==
    (seq.pc = "done") =>
        \A r \in 1..Len(seq.route_assignments) :
            LET route == seq.route_assignments[r]
            IN  /\ Cardinality(PlansFor(route.route_id)) = 1
                /\ \A p \in PlansFor(route.route_id) :
                      StopIds(seq.plans[p]) = SeqToSet(route.customers)

\* C4 amended: a supplied route yields exactly one plan when at least one of
\* its customers is a key of customer_to_index, and no plan otherwise; the
\* plan's stops are, each once, exactly the route's customers that are keys
\* of customer_to_index, so no customer appears in a plan of another route.
C4_IndexedMembershipPreserved ==
    (seq.pc = "done") =>
        /\ \A r \in 1..Len(seq.route_assignments) :
            LET route == seq.route_assignments[r]
                kept == {c \in SeqToSet(route.customers) : c \in seq.customer_to_index}
            IN  /\ Cardinality(PlansFor(route.route_id)) = (IF kept = {} THEN 0 ELSE 1)
                /\ \A p \in PlansFor(route.route_id) :
                      /\ StopIds(seq.plans[p]) = kept
                      /\ Len(seq.plans[p].stops) = Cardinality(kept)
                      /\ seq.plans[p].customer_count = Cardinality(kept)
        /\ \A p \in 1..Len(seq.plans) :
              \E r \in 1..Len(seq.route_assignments) :
                  seq.plans[p].route_id = seq.route_assignments[r].route_id

\* Two supplied routes, both returned: the first solved, with its first
\* customer (no key of customer_to_index) left out, the second in fallback order.
C4_Witness ==
    /\ seq.pc = "done"
    /\ Len(seq.plans) = 2
    /\ seq.fallback_routes = {"R2"}
    /\ Len(seq.route_assignments[1].customers) = 2
    /\ seq.route_assignments[1].customers[1] \notin seq.customer_to_index
    /\ Len(seq.plans[1].stops) = 1
    /\ seq.plans[1].stops[1].customer_id = seq.route_assignments[1].customers[2]
    /\ StopIds(seq.plans[2]) = SeqToSet(seq.route_assignments[2].customers)

\* ========================================================================
\* Zoning strategies: generate() of polar, isochrone, manual, clustering
\* ========================================================================
\* Customers handed to a strategy (ids 1..n, pairwise distinct).
MaxZonCustomers == 3

\* Largest target_zones explored (0 stands for a value < 1 / None).
MaxTargetZones == 4

\* A zone label <<prefix, number>> stands for the formatted zone id, e.g.
\* <<<<"J","E","D">>, 2>> for "JED002" and <<"ISO", 15>> for "ISO015".
NoZone == <<"", 0>>

\* --- polar.py -----------------------------------------------------------
\* bearing_degrees of a customer, in whole degrees of [0, 360).
BearingChoices == {0, 90, 119, 120, 270, 359}

RotationChoices == {0, 90}

\* The sector index moved on by one sector.
SectorIndexShifted(bearing, rotation_offset, target_zones) ==
    (((((bearing - rotation_offset) % 360) * target_zones) \div 360) + 1) % target_zones

SectorIndexNoRotation(bearing, rotation_offset, target_zones) ==
    (bearing * target_zones) \div 360

\* Lines 27-32: sector_size = 360 / target_zones,
\* sector_index = int(((bearing - rotation_offset) % 360) // sector_size).
SectorIndex(bearing, rotation_offset, target_zones) ==
    (((bearing - rotation_offset) % 360) * target_zones) \div 360

\* depot.code values, as sequences of characters.
DepotCodes == {<<"j", "d">>, <<"R", "u", "h", "1">>}

\* str.upper on the characters that occur in depot codes.
Upper(ch) ==
    CASE ch = "j" -> "J"
      [] ch = "d" -> "D"
      [] ch = "u" -> "U"
      [] ch = "h" -> "H"
      [] OTHER -> ch

\* depot.code[:3].upper()
CodePrefix(code) == [i \in 1..Min2(3, Len(code)) |-> Upper(code[i])]

\* Line 32: f"{depot.code[:3].upper()}{sector_index+1:03d}".
PolarZone(code, bearing, rotation_offset, target_zones) ==
    <<CodePrefix(code), SectorIndex(bearing, rotation_offset, target_zones) + 1>>

\* --- manual.py ----------------------------------------------------------
ManualZoneIds == <<"Z1", "Z2">>

\* A polygon is its zone_id ("" when the key is missing or empty) and the set
\* of customers point_in_polygon reports inside it.
ManualPolygons(n) ==
    UNION {[1..k -> [zone_id : {""} \cup SeqToSet(ManualZoneIds), inside : SUBSET (1..n)]]
           : k \in 0..Len(ManualZoneIds)}

\* The scan with the last containing polygon winning.
ManualScanLast(customer, polygons, k) ==
    LET hits == {j \in k..Len(polygons) : customer \in polygons[j].inside}
    IN  IF \E j \in k..Len(polygons) : polygons[j].zone_id = ""
        THEN [raised |-> TRUE, zone |-> ""]
        ELSE IF hits = {} THEN [raised |-> FALSE, zone |-> ""]
        ELSE [raised |-> FALSE,
              zone |-> polygons[CHOOSE j \in hits : \A i \in hits : i <= j].zone_id]

\* Lines 29-37: the scan of the polygons for one customer: the first polygon
\* that contains it wins; a polygon without zone_id met before that raises.
RECURSIVE ManualScan(_, _, _)
ManualScan(customer, polygons, k) ==
    IF k > Len(polygons) THEN [raised |-> FALSE, zone |-> ""]
    ELSE IF polygons[k].zone_id = "" THEN [raised |-> TRUE, zone |-> ""]
    ELSE IF customer \in polygons[k].inside THEN [raised |-> FALSE, zone |-> polygons[k].zone_id]
    ELSE ManualScan(customer, polygons, k + 1)

\* Lines 26-41: the loop over the customers, up to the first raise.
RECURSIVE ManualLoop(_, _, _, _)
ManualLoop(customers, polygons, assignments, unassigned) ==
    IF customers = <<>>
    THEN [raised |-> FALSE, assignments |-> assignments, unassigned |-> unassigned]
    ELSE LET c == Head(customers)
             hit == ManualScan(c, polygons, 1)
         IN  IF hit.raised
             THEN [raised |-> TRUE, assignments |-> assignments, unassigned |-> unassigned]
             ELSE IF hit.zone # ""
             THEN ManualLoop(Tail(customers), polygons,
                             [x \in DOMAIN assignments \cup {c} |->
                                 IF x = c THEN <<hit.zone, 0>> ELSE assignments[x]],
                             unassigned)
             ELSE ManualLoop(Tail(customers), polygons, assignments, Append(unassigned, c))

\* --- isochrone.py -------------------------------------------------------
\* settings.default_isochrones (minutes).
DefaultIsochrones == <<15, 30, 45, 60>>

\* thresholds argument: <<>> stands for None / empty (the default is used).
ThresholdChoices == {<<>>, <<30, 15>>}

\* math.inf, the duration of a customer the oracle reports as unreachable.
InfMinutes == 999999

\* Travel minutes depot -> customer (the oracle's answer / 60, or haversine).
DurationChoices == {15, 40, InfMinutes}

BatchSizeChoices == {1, 2}

\* What a table request of one chunk may come back with: a body with the
\* "durations" row of the chunk, a body without the "durations" key, or an
\* error status / transport error (raise_for_status, httpx exceptions).
ChunkAnswers == {"durations", "no_durations", "http_error"}

\* Line 31: sorted(thresholds or settings.default_isochrones).
SortedThresholds(thresholds) ==
    SortSeq(IF thresholds = <<>> THEN DefaultIsochrones ELSE thresholds,
            LAMBDA a, b : a < b)

\* _match_threshold, lines 96-104 (target_zones 0 stands for None).
RECURSIVE FirstThreshold(_, _, _)
FirstThreshold(duration, thresholds, k) ==
    IF k > Len(thresholds) THEN 0
    ELSE IF duration <= thresholds[k] THEN thresholds[k]
    ELSE FirstThreshold(duration, thresholds, k + 1)

MatchThreshold(duration, thresholds, target_zones) ==
    IF FirstThreshold(duration, thresholds, 1) # 0
    THEN <<"ISO", FirstThreshold(duration, thresholds, 1)>>
    ELSE IF target_zones # 0 /\ Len(thresholds) < target_zones
    THEN <<"ISOX", Min2(Len(thresholds) + 1, target_zones)>>
    ELSE <<"ISO_OUT_OF_RANGE", 0>>

\* Lines 33-36: zip(customers, durations) pairs position by position and
\* stops at the shorter of the two.
ZipAssign(customers, durations, thresholds, target_zones) ==
    [c \in {customers[k] : k \in 1..Min2(Len(customers), Len(durations))} |->
        MatchThreshold(durations[CHOOSE k \in 1..Len(customers) : customers[k] = c],
                       thresholds, target_zones)]

\* --- clustering.py ------------------------------------------------------
\* max_iterations of _enforce_max_customers_constraint.
ClusterMaxIterations == 10

\* max_customers_per_zone values (0 stands for None).
MaxPerZoneChoices == {0, 1, 2}

\* np.unique(labels): the labels in use, and the customers of one label.
UniqueLabels(labels) == {labels[i] : i \in 1..Len(labels)}

LabelCount(labels, l) == Cardinality({i \in 1..Len(labels) : labels[i] = l})

\* The test with a tolerance of 100 percent.
OverloadedLoose(count, max_customers_per_zone) == count > 2 * max_customers_per_zone

\* Lines 124-128: count > max_customers_per_zone * (1 + 0.2).
Overloaded(count, max_customers_per_zone) == 5 * count > 6 * max_customers_per_zone

\* Lines 129-136: the first label, in increasing order, with the largest
\* count among the overloaded ones.
ClusterToSplit(labels, max_customers_per_zone) ==
    LET over == {l \in UniqueLabels(labels) : Overloaded(LabelCount(labels, l), max_customers_per_zone)}
    IN  CHOOSE l \in over :
            \A m \in over : \/ LabelCount(labels, m) < LabelCount(labels, l)
                            \/ (LabelCount(labels, m) = LabelCount(labels, l) /\ l <= m)

EmptyAssignments == [x \in {} |-> NoZone]

ZonBlank ==
    [pc |-> "start", method |-> "none", depot_code |-> <<>>, customers |-> <<>>, target_zones |-> 0,
     bearing |-> <<>>, rotation_offset |-> 0,
     polygons |-> <<>>,
     durations |-> <<>>, thresholds |-> <<>>, uses_osrm |-> FALSE, max_batch_size |-> 1,
     start |-> 1, computed |-> <<>>, dropped_chunks |-> 0,
     labels |-> <<>>, max_customers_per_zone |-> 0, iteration |-> 0, current_zones |-> 0,
     splits_performed |-> 0,
     assignments |-> EmptyAssignments, unassigned |-> <<>>, has_unassigned_list |-> FALSE,
     raised |-> "none"]

ZonInit ==
    /\ \E n \in 0..MaxZonCustomers, tz \in 0..MaxTargetZones :
        \/ \E b \in [1..n -> BearingChoices], rot \in RotationChoices, code \in DepotCodes :
             zon = [ZonBlank EXCEPT !.method = "polar", !.customers = [i \in 1..n |-> i],
                       !.depot_code = code,
                       !.target_zones = tz, !.bearing = b, !.rotation_offset = rot]
        \/ \E polys \in ManualPolygons(n) :
             zon = [ZonBlank EXCEPT !.method = "manual", !.customers = [i \in 1..n |-> i],
                       !.target_zones = tz, !.polygons = polys]
        \/ \E d \in [1..n -> DurationChoices], th \in ThresholdChoices, osrm \in BOOLEAN,
              mbs \in BatchSizeChoices :
             /\ osrm \/ \A i \in 1..n : d[i] # InfMinutes
             /\ zon = [ZonBlank EXCEPT !.method = "isochrone", !.customers = [i \in 1..n |-> i],
                          !.target_zones = tz, !.durations = d, !.thresholds = th,
                          !.uses_osrm = osrm, !.max_batch_size = mbs]
        \/ \E mpz \in MaxPerZoneChoices, code \in DepotCodes :
             zon = [ZonBlank EXCEPT !.method = "clustering", !.customers = [i \in 1..n |-> i],
                       !.depot_code = code,
                       !.target_zones = tz, !.max_customers_per_zone = mpz]
    /\ http = Off /\ tbl = Off /\ bal = Off /\ seq = Off /\ vrp = Off /\ ovl = Off /\ orc = Off

\* PolarSectorZoning.generate.
PolarGenerate ==
    /\ zon.pc = "start" /\ zon.method = "polar"
    /\ zon' = IF zon.target_zones < 1
              THEN [zon EXCEPT !.pc = "raised", !.raised = "ValueError:target_zones"]
              ELSE [zon EXCEPT !.pc = "done",
                       !.assignments =
                           [c \in SeqToSet(zon.customers) |->
                               PolarZone(zon.depot_code, zon.bearing[c], zon.rotation_offset, zon.target_zones)]]
    /\ UNCHANGED <<http, tbl, bal, seq, vrp, ovl, orc>>

\* ManualPolygonZoning.generate.
ManualGenerate ==
    /\ zon.pc = "start" /\ zon.method = "manual"
    /\ zon' = IF zon.polygons = <<>>
              THEN [zon EXCEPT !.pc = "raised", !.raised = "ValueError:polygons"]
              ELSE LET out == ManualLoop(zon.customers, zon.polygons, EmptyAssignments, <<>>)
                   IN  IF out.raised
                       THEN [zon EXCEPT !.pc = "raised", !.raised = "ValueError:zone_id"]
                       ELSE [zon EXCEPT !.pc = "done", !.assignments = out.assignments,
                                !.unassigned = out.unassigned, !.has_unassigned_list = TRUE]
    /\ UNCHANGED <<http, tbl, bal, seq, vrp, ovl, orc>>

\* IsochroneZoning._compute_travel_minutes without an oracle URL (line 52-53):
\* haversine minutes for every customer, then lines 33-38.
IsoHaversine ==
    /\ zon.pc = "start" /\ zon.method = "isochrone" /\ ~zon.uses_osrm
    /\ zon' = [zon EXCEPT !.pc = "done", !.computed = zon.durations,
                  !.assignments = ZipAssign(zon.customers, zon.durations,
                                            SortedThresholds(zon.thresholds), zon.target_zones)]
    /\ UNCHANGED <<http, tbl, bal, seq, vrp, ovl, orc>>

\* One pass of the chunk loop, lines 58-61, with the oracle's answer.
IsoChunk ==
    /\ zon.pc = "start" /\ zon.method = "isochrone" /\ zon.uses_osrm
    /\ zon.start <= Len(zon.customers)
    /\ \E answer \in ChunkAnswers :
        zon' = IF answer = "http_error"
               THEN [zon EXCEPT !.pc = "raised", !.raised = "HTTPError"]
               ELSE IF answer = "no_durations"
               THEN [zon EXCEPT !.start = @ + zon.max_batch_size, !.dropped_chunks = @ + 1]
               ELSE [zon EXCEPT !.start = @ + zon.max_batch_size,
                        !.computed = @ \o Slice(zon.durations, zon.start - 1,
                                                Min2(zon.start + zon.max_batch_size - 1,
                                                     Len(zon.customers)))]
    /\ UNCHANGED <<http, tbl, bal, seq, vrp, ovl, orc>>

\* Lines 33-38 after the last chunk.
IsoAssign ==
    /\ zon.pc = "start" /\ zon.method = "isochrone" /\ zon.uses_osrm
    /\ zon.start > Len(zon.customers)
    /\ zon' = [zon EXCEPT !.pc = "done",
                  !.assignments = ZipAssign(zon.customers, zon.computed,
                                            SortedThresholds(zon.thresholds), zon.target_zones)]
    /\ UNCHANGED <<http, tbl, bal, seq, vrp, ovl, orc>>

\* ClusteringZoning.generate, lines 186-217: validation and the initial
\* K-Means, whose labelling is any map of the customers to 0..target_zones-1;
\* K-Means refuses fewer samples than clusters.
ClusterKMeans ==
    /\ zon.pc = "start" /\ zon.method = "clustering"
    /\ IF zon.target_zones < 1
       THEN zon' = [zon EXCEPT !.pc = "raised", !.raised = "ValueError:target_zones"]
       ELSE IF zon.customers = <<>>
       THEN zon' = [zon EXCEPT !.pc = "done"]
       ELSE IF Len(zon.customers) < zon.target_zones
       THEN zon' = [zon EXCEPT !.pc = "raised", !.raised = "ValueError:n_samples"]
       ELSE \E labels \in [1..Len(zon.customers) -> 0..(zon.target_zones - 1)] :
              zon' = [zon EXCEPT !.pc = IF zon.max_customers_per_zone # 0 THEN "enforce" ELSE "assign",
                                 !.labels = labels,
                                 !.current_zones = Cardinality(UniqueLabels(labels))]
    /\ UNCHANGED <<http, tbl, bal, seq, vrp, ovl, orc>>

\* One pass of the loop of _enforce_max_customers_constraint, lines 118-169;
\* the 2-means split of the cluster is any map of its customers to {0, 1}.
ClusterSplit ==
    /\ zon.pc = "enforce"
    /\ LET mpz == zon.max_customers_per_zone
           over == {l \in UniqueLabels(zon.labels) : Overloaded(LabelCount(zon.labels, l), mpz)}
       IN  IF zon.iteration >= ClusterMaxIterations \/ over = {}
           THEN zon' = [zon EXCEPT !.pc = "assign"]
           ELSE LET cluster == ClusterToSplit(zon.labels, mpz)
                    members == {i \in 1..Len(zon.labels) : zon.labels[i] = cluster}
                IN  IF Cardinality(members) < 2
                    THEN zon' = [zon EXCEPT !.pc = "assign"]
                    ELSE \E sub_labels \in [members -> {0, 1}] :
                           zon' = [zon EXCEPT
                                     !.labels = [i \in 1..Len(zon.labels) |->
                                                    IF i \in members /\ sub_labels[i] = 1
                                                    THEN zon.current_zones ELSE zon.labels[i]],
                                     !.current_zones = @ + 1,
                                     !.iteration = @ + 1,
                                     !.splits_performed = @ + 1]
    /\ UNCHANGED <<http, tbl, bal, seq, vrp, ovl, orc>>

\* Lines 255-284.
ClusterAssign ==
    /\ zon.pc = "assign"
    /\ zon' = [zon EXCEPT !.pc = "done",
                  !.assignments = [c \in SeqToSet(zon.customers) |->
                                      <<CodePrefix(zon.depot_code) \o <<"C">>, zon.labels[c] + 1>>]]
    /\ UNCHANGED <<http, tbl, bal, seq, vrp, ovl, orc>>

ZonNext ==
    \/ PolarGenerate
    \/ ManualGenerate
    \/ IsoHaversine
    \/ IsoChunk
    \/ IsoAssign
    \/ ClusterKMeans
    \/ ClusterSplit
    \/ ClusterAssign

SpecZoning == ZonInit /\ [][ZonNext]_vars

\* C1: after generate() of any strategy every input customer id appears
\* exactly once: as a key of assignments, or in the list of unassigned
\* customers of the metadata.
C1_EveryCustomerOnce ==
    (zon.pc = "done") =>
        \A k \in 1..Len(zon.customers) :
            LET c == zon.customers[k]
                listed == {u \in 1..Len(zon.unassigned) : zon.unassigned[u] = c}
            IN  \/ (c \in DOMAIN zon.assignments /\ listed = {})
                \/ (c \notin DOMAIN zon.assignments /\ zon.has_unassigned_list
                      /\ Cardinality(listed) = 1)

\* ========================================================================
\* Zone polygons: _convex_hull_overlays
\* ========================================================================
\* Geometry is modelled on one axis in units of 0.001 degree: the customers
\* of all zones lie in a band of one height, so that a zone's hull and every
\* polygon derived from it is the band over a set of unit segments; segment
\* k is the open interval (k, k+1), a customer sits on a grid point, and a
\* polygon is a non-empty run of consecutive segments.
MaxOvlZones == 3

\* Grid points a customer may sit on.
OvlPositions == {0, 2, 8, 10, 14, 16}

\* City boundary as <<first segment, last segment>>; <<>> when the city is
\* not in CITY_BOUNDARIES. Every customer lies inside the city.
CityChoices == {<<>>, <<-10, 40>>, <<-3, 40>>}

\* hull.buffer(0.005), hull.buffer(0.002), polygon.buffer(-0.001), polygon.buffer(0.001).
HullBuffer == 5

HullBufferFallback == 2

ShrinkDistance == 1

ExpandDistance == 1

\* The maximal runs of consecutive segments of a region.
ComponentOf(region, a) ==
    {b \in region : \A k \in Min2(a, b)..Max2(a, b) : k \in region}

Components(region) == {ComponentOf(region, a) : a \in region}

\* geom_type == "Polygon" and not is_empty; geom_type == "MultiPolygon".
\* (a region has as many parts as it has segments without a right neighbour)
PartCount(region) == Cardinality({a \in region : (a + 1) \notin region})

IsPolygon(region) == PartCount(region) = 1

IsMultiPolygon(region) == PartCount(region) > 1

\* max(geoms, key=area): a part of largest area (the order of the parts,
\* which decides ties, is not fixed by the geometry library).
LargestParts(region) ==
    {c \in Components(region) : \A d \in Components(region) : Cardinality(d) <= Cardinality(c)}

\* buffer(d) for d > 0 and buffer(-d).
Buffer(region, d) == UNION {(r - d)..(r + d) : r \in region}

Shrink(region, d) == {k \in region : \A j \in (k - d)..(k + d) : j \in region}

\* intersects: the closed regions share a point (a segment or an end point).
Intersects(a, b) == \E x \in a, y \in b : Abs(x - y) <= 1

\* polygon.contains(Point): strictly inside; Covers: inside or on the boundary.
Contains(region, p) == (p - 1) \in region /\ p \in region

Covers(region, p) == (p - 1) \in region \/ p \in region

\* MultiPoint(points).convex_hull: a polygon only if the points span a range.
HullOf(points) ==
    LET lo == CHOOSE x \in SeqToSet(points) : \A y \in SeqToSet(points) : x <= y
        hi == CHOOSE x \in SeqToSet(points) : \A y \in SeqToSet(points) : y <= x
    IN  lo..(hi - 1)

CityRegion(city) == IF city = <<>> THEN {} ELSE city[1]..city[2]

\* Lines 410-441 for one zone with at least 3 points and a polygon hull:
\* buffer the hull outward, then clip to the city when they intersect and
\* the clipped result is a polygon.
BufferedHull(points, city) ==
    LET hull == HullOf(points)
        first == Buffer(hull, HullBuffer)
        second == Buffer(hull, HullBufferFallback)
        buffered == IF IsPolygon(first) THEN first
                    ELSE IF IsPolygon(second) THEN second ELSE hull
        clipped == buffered \cap CityRegion(city)
    IN  IF city # <<>> /\ Intersects(buffered, CityRegion(city)) /\ IsPolygon(clipped)
        THEN clipped ELSE buffered

\* Lines 405-412: the zones that get a polygon in the first pass.
\* The test with two points accepted.
HasHullFromTwo(points) == Len(points) >= 2 /\ IsPolygon(HullOf(points))

\* Lines 405-411: at least 3 points and a hull that is a polygon.
HasHull(points) == Len(points) >= 3 /\ IsPolygon(HullOf(points))

\* Lines 454-479 for one zone: every result of the loop over the other
\* zones. `polygon` is the zone's first-pass polygon, `final` the running
\* result; each other zone is tested and subtracted with ITS first-pass polygon.
RECURSIVE ResolveOverlaps(_, _, _, _, _)
ResolveOverlaps(zone_polygons, zone_ids, zone, k, final) ==
    IF k > Len(zone_ids) THEN {final}
    ELSE LET polygon == zone_polygons[zone]
             other == zone_polygons[zone_ids[k]]
         IN  IF zone_ids[k] = zone \/ ~Intersects(polygon, other) \/ polygon \cap other = {}
             THEN ResolveOverlaps(zone_polygons, zone_ids, zone, k + 1, final)
             ELSE LET diff == final \ other
                      parts == IF IsMultiPolygon(diff) THEN LargestParts(diff) ELSE {diff}
                  IN  UNION {ResolveOverlaps(zone_polygons, zone_ids, zone, k + 1,
                                 IF IsPolygon(part) THEN part ELSE Shrink(polygon, ShrinkDistance))
                             : part \in parts}

\* Lines 494-506: the polygons the containment repair may leave.
Repaired(polygon, city) ==
    LET expanded == Buffer(polygon, ExpandDistance)
        reclipped == IF city = <<>> THEN {expanded}
                     ELSE IF IsMultiPolygon(expanded \cap CityRegion(city))
                          THEN LargestParts(expanded \cap CityRegion(city))
                          ELSE {expanded \cap CityRegion(city)}
    IN  IF ~IsPolygon(expanded) THEN {polygon}
        ELSE {IF IsPolygon(e) THEN e ELSE polygon : e \in reclipped}

\* Zone ids in insertion order of a dict keyed by the zones in `present`.
RECURSIVE ZoneIdList(_, _)
ZoneIdList(present, z) ==
    IF z > MaxOvlZones THEN <<>>
    ELSE (IF z \in present THEN <<z>> ELSE <<>>) \o ZoneIdList(present, z + 1)

\* The point lists explored for a zone: three customers that span a range
\* (two of them at one end), three customers at one point, or two customers.
OvlPointLists ==
    {<<lo, lo, hi>> : lo \in OvlPositions, hi \in OvlPositions}
    \cup {<<lo, hi, hi>> : lo \in OvlPositions, hi \in OvlPositions}
    \cup {<<0, 2>>}

\* Customers of different zones sit on different grid points.
OvlDistinctPlaces(pts) ==
    \A z1, z2 \in DOMAIN pts :
        (z1 # z2 /\ HasHull(pts[z1]) /\ HasHull(pts[z2])) =>
            SeqToSet(pts[z1]) \cap SeqToSet(pts[z2]) = {}

OvlInit ==
    /\ \E pts \in [1..MaxOvlZones -> {q \in OvlPointLists : q[1] <= q[Len(q)]}],
          city \in CityChoices :
        /\ OvlDistinctPlaces(pts)
        /\ ovl = [pc |-> "hulls", zone_points |-> pts, city |-> city,
                  zone_polygons |-> [z \in {} |-> {}], zone_ids |-> <<>>,
                  clipped_polygons |-> [z \in {} |-> {}],
                  next |-> 1, overlays |-> <<>>, expanded |-> {}]
    /\ http = Off /\ tbl = Off /\ bal = Off /\ seq = Off /\ vrp = Off /\ zon = Off /\ orc = Off

\* Lines 403-446: the first pass.
OvlHulls ==
    /\ ovl.pc = "hulls"
    /\ LET present == {z \in 1..MaxOvlZones : HasHull(ovl.zone_points[z])}
       IN  ovl' = [ovl EXCEPT !.pc = "resolve",
                      !.zone_polygons = [z \in present |-> BufferedHull(ovl.zone_points[z], ovl.city)],
                      !.zone_ids = ZoneIdList(present, 1)]
    /\ UNCHANGED <<http, tbl, bal, seq, vrp, zon, orc>>

\* Lines 449-481: one pass of the loop over zone_ids.
OvlResolve ==
    /\ ovl.pc = "resolve"
    /\ IF ovl.next > Len(ovl.zone_ids)
       THEN ovl' = [ovl EXCEPT !.pc = "validate", !.next = 1]
       ELSE LET zone == ovl.zone_ids[ovl.next]
            IN  \E final \in ResolveOverlaps(ovl.zone_polygons, ovl.zone_ids, zone, 1,
                                             ovl.zone_polygons[zone]) :
                   ovl' = [ovl EXCEPT !.next = @ + 1,
                              !.clipped_polygons =
                                  [z \in DOMAIN @ \cup {zone} |-> IF z = zone THEN final ELSE @[z]]]
    /\ UNCHANGED <<http, tbl, bal, seq, vrp, zon, orc>>

\* Lines 485-520: one pass of the loop over clipped_polygons.
OvlValidate ==
    /\ ovl.pc = "validate"
    /\ IF ovl.next > Len(ovl.zone_ids)
       THEN ovl' = [ovl EXCEPT !.pc = "done"]
       ELSE LET zone == ovl.zone_ids[ovl.next]
                polygon == ovl.clipped_polygons[zone]
                points == ovl.zone_points[zone]
                customers_inside == \A i \in 1..Len(points) : Contains(polygon, points[i])
            IN  IF ~IsPolygon(polygon)
                THEN ovl' = [ovl EXCEPT !.next = @ + 1]
                ELSE \E emitted \in (IF customers_inside THEN {polygon}
                                     ELSE Repaired(polygon, ovl.city)) :
                       ovl' = [ovl EXCEPT !.next = @ + 1,
                                  !.expanded = IF customers_inside THEN @ ELSE @ \cup {zone},
                                  !.overlays = Append(@, [zone_id |-> zone,
                                                          polygon |-> emitted,
                                                          customer_count |-> Len(points)])]
    /\ UNCHANGED <<http, tbl, bal, seq, vrp, zon, orc>>

OvlNext == OvlHulls \/ OvlResolve \/ OvlValidate

SpecOverlay == OvlInit /\ [][OvlNext]_vars

\* C6: every emitted polygon of a zone with >= 3 customers contains, inside
\* or on its boundary, every customer point of that zone.
C6_PolygonContainsCustomers ==
    (ovl.pc = "done") =>
        \A o \in 1..Len(ovl.overlays) :
            LET points == ovl.zone_points[ovl.overlays[o].zone_id]
            IN  Len(points) >= 3 =>
                    \A i \in 1..Len(points) : Covers(ovl.overlays[o].polygon, points[i])

\* C7: no two emitted polygons of distinct zones overlap in a positive area.
C7_PolygonsDisjoint ==
    (ovl.pc = "done") =>
        \A o1, o2 \in 1..Len(ovl.overlays) :
            ovl.overlays[o1].zone_id # ovl.overlays[o2].zone_id =>
                ovl.overlays[o1].polygon \cap ovl.overlays[o2].polygon = {}

\* The sector of the claim's formula: the k with
\* k * (360 / target_zones) <= (bearing - rotation_offset) mod 360 < (k + 1) * (360 / target_zones).
ClaimedSector(bearing, rotation_offset, target_zones) ==
    CHOOSE k \in 0..(target_zones - 1) :
        /\ k * 360 <= ((bearing - rotation_offset) % 360) * target_zones
        /\ ((bearing - rotation_offset) % 360) * target_zones < (k + 1) * 360

PolarDone == zon.pc = "done" /\ zon.method = "polar"

\* C11 as stated: every customer gets the zone id made of the uppercased
\* first 3 characters of the depot code and the sector index k itself.
C11_PolarSectorAsStated ==
    PolarDone =>
        \A c \in DOMAIN zon.assignments :
            zon.assignments[c] =
                <<CodePrefix(zon.depot_code),
                  ClaimedSector(zon.bearing[c], zon.rotation_offset, zon.target_zones)>>

\* C11 amended: the zone id is the uppercased first 3 characters of the depot
\* code followed by k + 1 (sectors are numbered from 1), for the sector k of
\* the formula; two customers share a zone id exactly when they share k.
C11_PolarSectorNumberedFromOne ==
    PolarDone =>
        /\ DOMAIN zon.assignments = SeqToSet(zon.customers)
        /\ \A c \in DOMAIN zon.assignments :
              /\ Len(zon.assignments[c][1]) = Min2(3, Len(zon.depot_code))
              /\ \A i \in 1..Len(zon.assignments[c][1]) :
                    zon.assignments[c][1][i] \in {"J", "D", "R", "U", "H", "1"}
                    /\ Upper(zon.depot_code[i]) = zon.assignments[c][1][i]
              /\ zon.assignments[c][2] =
                    ClaimedSector(zon.bearing[c], zon.rotation_offset, zon.target_zones) + 1
        /\ \A c, e \in DOMAIN zon.assignments :
              (zon.assignments[c] = zon.assignments[e]) <=>
                  (ClaimedSector(zon.bearing[c], zon.rotation_offset, zon.target_zones)
                     = ClaimedSector(zon.bearing[e], zon.rotation_offset, zon.target_zones))

\* target_zones = 4: a customer due east (sector 1, id number 2) and one due
\* west (sector 3, id number 4) of a depot with code "Ruh1".
C11_Witness ==
    /\ PolarDone
    /\ zon.target_zones = 4 /\ zon.rotation_offset = 0
    /\ zon.depot_code = <<"R", "u", "h", "1">>
    /\ Len(zon.customers) >= 2
    /\ zon.bearing[1] = 90 /\ zon.bearing[2] = 270
    /\ zon.assignments[1] = <<<<"R", "U", "H">>, 2>>
    /\ zon.assignments[2] = <<<<"R", "U", "H">>, 4>>

\* The bucket of the claim for a duration: the smallest threshold that is
\* >= the duration; beyond every threshold the extra numbered bucket when
\* target_zones exceeds the number of thresholds, else the out-of-range bucket.
ClaimedBucket(duration, thresholds, target_zones) ==
    LET used == IF thresholds = <<>> THEN DefaultIsochrones ELSE thresholds
        fits == {t \in SeqToSet(used) : duration <= t}
    IN  IF fits # {}
        THEN <<"ISO", CHOOSE t \in fits : \A u \in fits : t <= u>>
        ELSE IF target_zones > Len(used)
        THEN <<"ISOX", Len(used) + 1>>
        ELSE <<"ISO_OUT_OF_RANGE", 0>>

IsoDone == zon.pc = "done" /\ zon.method = "isochrone"

\* C12: isochrone zoning assigns each customer to the smallest threshold its
\* travel duration does not exceed (inclusive), or to the extra / the
\* out-of-range bucket when the duration exceeds every threshold.
C12_IsochroneBucket ==
    IsoDone =>
        \A k \in 1..Len(zon.customers) :
            /\ zon.customers[k] \in DOMAIN zon.assignments
            /\ zon.assignments[zon.customers[k]] =
                  ClaimedBucket(zon.durations[k], zon.thresholds, zon.target_zones)

ManualDone == zon.pc = "done" /\ zon.method = "manual"

\* The polygons, by position, that contain the customer.
ContainingPolygons(customer) ==
    {k \in 1..Len(zon.polygons) : customer \in zon.polygons[k].inside}

\* C13: manual-polygon zoning assigns a customer to the first supplied polygon
\* that contains it (a later containing polygon never wins); a customer that
\* no polygon contains is absent from assignments and listed as unassigned.
C13_FirstPolygonWins ==
    ManualDone =>
        \A c \in SeqToSet(zon.customers) :
            LET hits == ContainingPolygons(c)
            IN  IF hits # {}
                THEN /\ c \in DOMAIN zon.assignments
                     /\ \E k \in hits :
                          /\ \A j \in hits : k <= j
                          /\ zon.assignments[c] = <<zon.polygons[k].zone_id, 0>>
                     /\ c \notin SeqToSet(zon.unassigned)
                ELSE /\ c \notin DOMAIN zon.assignments
                     /\ c \in SeqToSet(zon.unassigned)

\* A finished manual run in which customer 1 lies inside two polygons of
\* different zones and got the first one, and customer 2 lies in none.
C13_Witness ==
    /\ ManualDone
    /\ Len(zon.customers) >= 2 /\ Len(zon.polygons) = 2
    /\ zon.polygons[1].zone_id # zon.polygons[2].zone_id
    /\ ContainingPolygons(1) = {1, 2}
    /\ zon.assignments[1] = <<zon.polygons[1].zone_id, 0>>
    /\ ContainingPolygons(2) = {}
    /\ 2 \in SeqToSet(zon.unassigned)

ClusterDone ==
    zon.pc = "done" /\ zon.method = "clustering" /\ zon.max_customers_per_zone # 0
        /\ zon.customers # <<>>

\* Every cluster has at most max_customers_per_zone * 1.2 customers.
AllWithinLimit ==
    \A l \in UniqueLabels(zon.labels) :
        10 * LabelCount(zon.labels, l) <= 12 * zon.max_customers_per_zone

\* No cluster with two or more members is left.
NothingToSplit == \A l \in UniqueLabels(zon.labels) : LabelCount(zon.labels, l) < 2

\* C14 as stated: with max_customers_per_zone set, clustering ends with every
\* cluster within max_customers_per_zone * (1 + tolerance) or with no cluster
\* of two or more members left to split.
C14_SplitUntilWithinLimitAsStated == ClusterDone => (AllWithinLimit \/ NothingToSplit)

\* C14 as amended: with max_customers_per_zone set, clustering ends with every
\* cluster within max_customers_per_zone * (1 + tolerance), or with no cluster
\* of two or more members left, or after the 10 splitting passes of the cap;
\* every pass before the end splits one cluster.
C14_SplitUntilWithinLimitOrCap ==
    ClusterDone =>
        /\ AllWithinLimit \/ NothingToSplit \/ zon.iteration = ClusterMaxIterations
        /\ zon.splits_performed = zon.iteration

\* Three customers first put in one cluster, one customer allowed per zone:
\* two splits later every cluster has one customer, before the cap.
C14_Witness ==
    /\ ClusterDone
    /\ Len(zon.customers) = 3 /\ zon.target_zones = 1 /\ zon.max_customers_per_zone = 1
    /\ zon.splits_performed = 2
    /\ AllWithinLimit

\* The node of the closed tour before stop k + 1 (the depot before stop 1),
\* and the tour's matrix sums: depot -> stop 1 -> ... -> last stop -> depot.
TourNode(stops, k) == IF k = 0 \/ k > Len(stops) THEN 0 ELSE stops[k].customer_id

TourDistance(legs, stops) ==
    SumSeq([k \in 1..(Len(stops) + 1) |->
               DistanceMatrix(legs, TourNode(stops, k - 1), TourNode(stops, k))])

TourDuration(legs, stops) ==
    SumSeq([k \in 1..(Len(stops) + 1) |->
               DurationMatrix(legs, TourNode(stops, k - 1), TourNode(stops, k))])

\* C15: a plan's total distance and total duration are the matrix sums over
\* the closed tour depot -> stop 1 -> ... -> last stop -> depot, on the solved
\* path and on the caller-order fallback path of solve_sequence_only.
C15_TotalsAreClosedTour ==
    (seq.pc = "done") =>
        \A p \in 1..Len(seq.plans) :
            /\ seq.plans[p].total_distance_m = TourDistance(seq.legs, seq.plans[p].stops)
            /\ seq.plans[p].total_duration_s = TourDuration(seq.legs, seq.plans[p].stops)

\* Sequence numbers 1, 2, ..., customer_count and non-decreasing arrivals.
WellSequenced(plan) ==
    /\ plan.customer_count = Len(plan.stops)
    /\ \A k \in 1..Len(plan.stops) : plan.stops[k].sequence = k
    /\ \A k \in 2..Len(plan.stops) : plan.stops[k - 1].arrival_s <= plan.stops[k].arrival_s

\* C16: in every plan of solve_sequence_only, the caller-order fallback with
\* customers missing from customer_to_index included, the stops' sequence
\* numbers are exactly 1..customer_count and arrivals never decrease.
C16_SequenceContiguous ==
    (seq.pc = "done") => \A p \in 1..Len(seq.plans) : WellSequenced(seq.plans[p])

\* The customer ids of a plan's stops, in stop order.
StopOrder(plan) == [k \in 1..Len(plan.stops) |-> plan.stops[k].customer_id]

\* The route's customers that are keys of customer_to_index, in caller order.
IndexedInOrder(route) ==
    SelectSeq(route.customers, LAMBDA c : c \in seq.customer_to_index)

\* Every supplied route with an indexed customer has exactly one plan, and
\* that plan visits exactly the route's indexed customers.
EveryRoutePlanned ==
    \A r \in 1..Len(seq.route_assignments) :
        LET route == seq.route_assignments[r]
        IN  IndexedInOrder(route) # <<>> =>
              /\ Cardinality(PlansFor(route.route_id)) = 1
              /\ \A p \in PlansFor(route.route_id) :
                    StopIds(seq.plans[p]) = SeqToSet(IndexedInOrder(route))

\* C19 as stated: a route whose single-vehicle solve failed is returned as a
\* plan whose stops are the route's customers in the caller-supplied order,
\* and the other routes' plans are returned as well.
C19_FallbackKeepsCallerOrderAsStated ==
    (seq.pc = "done") =>
        /\ \A r \in 1..Len(seq.route_assignments) :
              LET route == seq.route_assignments[r]
              IN  route.route_id \in seq.fallback_routes =>
                    /\ Cardinality(PlansFor(route.route_id)) = 1
                    /\ \A p \in PlansFor(route.route_id) :
                          StopOrder(seq.plans[p]) = route.customers
        /\ EveryRoutePlanned

\* C19 amended: a route whose single-vehicle solve failed is returned as a
\* plan whose stops are the route's customers that are keys of
\* customer_to_index, in the caller-supplied order; the other routes' plans
\* are returned as well.
C19_FallbackKeepsIndexedCallerOrder ==
    (seq.pc = "done") =>
        /\ \A r \in 1..Len(seq.route_assignments) :
              LET route == seq.route_assignments[r]
              IN  route.route_id \in seq.fallback_routes =>
                    /\ Cardinality(PlansFor(route.route_id)) = 1
                    /\ \A p \in PlansFor(route.route_id) :
                          StopOrder(seq.plans[p]) = IndexedInOrder(route)
        /\ EveryRoutePlanned

\* Route R1 = <<2, 1>> failed and is returned in that order; route R2 = <<3>>
\* was solved and is returned too.
C19_Witness ==
    /\ seq.pc = "done"
    /\ seq.fallback_routes = {"R1"}
    /\ seq.route_assignments[1].customers = <<2, 1>>
    /\ seq.route_assignments[2].customers = <<3>>
    /\ Len(seq.plans) = 2
    /\ StopOrder(seq.plans[1]) = <<2, 1>>
    /\ StopOrder(seq.plans[2]) = <<3>>

\* ------------------------------------------------------------------------
\* Orchestration: optimize_routes (routing/service.py) and
\* process_zoning_request (zoning/service.py).  The collaborators (depot
\* lookup, customer loading, strategy, oracle, solvers) are answers drawn at
\* Init; orc.calls lists the collaborators invoked so far.
\* ------------------------------------------------------------------------
MaxOrcCustomers == 2

OrcCustomers == 1..MaxOrcCustomers

\* Customer id 0 is an id no loaded customer has.
OrcIds == 0..MaxOrcCustomers

NoError == [type |-> "none", origin |-> "none"]

Error(type, origin) == [type |-> type, origin |-> origin]

\* get_customers_for_location may raise (load_customers: ValueError on a file
\* without header row; ConnectionError from the database);
\* get_customers_for_zone catches every exception and returns an empty tuple.
ZoningLoaderAnswers == {"customers", "ValueError", "ConnectionError"}

ZoningMethods == {"polar", "isochrone", "clustering", "manual", "other"}

StrategyAnswers == {"result", "ValueError"}

\* OSRMClient.table: a table whose depot row has None for the customers in
\* unreachable, or an exception.
TableAnswers ==
    {[kind |-> k, unreachable |-> {}] : k \in {"ConnectionError", "ValueError", "Exception"}}
        \cup {[kind |-> "table", unreachable |-> u] : u \in SUBSET OrcCustomers}

\* payload.route_assignments: route id, day and customer ids of each entry.
AssignmentIdChoices == {<<>>, <<0>>, <<1>>, <<2, 1>>}

AssignmentChoices ==
    [route_id : {"R1", "R2"}, day : {"SUN", "MON"}, customer_ids : AssignmentIdChoices]

RouteAssignmentLists == UNION {[1..k -> AssignmentChoices] : k \in 0..2}

\* Keyword parameters of solver.solve_vrp, and the keywords of the call in
\* optimize_routes.
SolveVrpParameters == {"zone_id", "customers", "osrm_table", "working_days", "constraints"}

SolveVrpCallKeywords == {"zone_id", "customers", "osrm_table", "constraints", "start_from_depot"}

\* _filter_customers with every customer kept.
FilterCustomersAll(customers, customer_ids) == customers

\* _filter_customers: no filter when customer_ids is None or empty.
FilterCustomers(customers, customer_ids) ==
    IF customer_ids = {} THEN customers ELSE customers \cap customer_ids

\* The dispatch test with manual mode never taken.
ManualModeNever(route_assignments) == FALSE

\* Line 76: `if payload.route_assignments`.
ManualMode(route_assignments) == route_assignments # <<>>

\* Line 111: unreachable_rate > 0.5 over the depot row of the customers.
MostlyUnreachable(unreachable, customers) ==
    customers # {} /\ 2 * Cardinality(unreachable \cap customers) > Cardinality(customers)

\* The ids of a list that pass the checks of lines 311-319: known in the
\* zone and not assigned before.
RECURSIVE KeepIds(_, _, _)
KeepIds(ids, known, assigned) ==
    IF ids = <<>> THEN <<>>
    ELSE IF Head(ids) \in known /\ Head(ids) \notin assigned
    THEN <<Head(ids)>> \o KeepIds(Tail(ids), known, assigned \cup {Head(ids)})
    ELSE KeepIds(Tail(ids), known, assigned)

\* dict assignment route_assignments_dict[route_id] = (day, customers): a
\* later entry with the same route id replaces the earlier one in place.
PutRoute(dict, entry) ==
    IF \E k \in 1..Len(dict) : dict[k].route_id = entry.route_id
    THEN [k \in 1..Len(dict) |-> IF dict[k].route_id = entry.route_id THEN entry ELSE dict[k]]
    ELSE Append(dict, entry)

\* Lines 308-323: route_assignments_dict.
RECURSIVE BuildRouteAssignments(_, _, _, _)
BuildRouteAssignments(assignments, known, assigned, dict) ==
    IF assignments = <<>> THEN dict
    ELSE LET a == Head(assignments)
             kept == KeepIds(a.customer_ids, known, assigned)
         IN  BuildRouteAssignments(Tail(assignments), known, assigned \cup SeqToSet(kept),
                 IF kept = <<>> THEN dict
                 ELSE PutRoute(dict, [route_id |-> a.route_id, day |-> a.day, customers |-> kept]))

OrcBlank ==
    [pc |-> "start", service |-> "routing", depot_found |-> TRUE, loader |-> "customers",
     customers |-> {}, customer_ids |-> {}, route_assignments |-> <<>>,
     method |-> "none", strategy |-> "result",
     osrm_configured |-> TRUE, table |-> [kind |-> "table", unreachable |-> {}],
     solver_finds |-> TRUE,
     filtered |-> {}, calls |-> {}, use_haversine_fallback |-> FALSE, matrix |-> "none",
     metadata |-> {}, plans |-> <<>>, raised |-> NoError]

OrcInit ==
    /\ \E depot \in BOOLEAN, cs \in SUBSET OrcCustomers :
        \/ \E load \in ZoningLoaderAnswers, m \in ZoningMethods, st \in StrategyAnswers :
             orc = [OrcBlank EXCEPT !.service = "zoning", !.depot_found = depot,
                       !.loader = load, !.customers = IF load = "customers" THEN cs ELSE {},
                       !.method = m, !.strategy = st]
        \/ \E ids \in SUBSET OrcIds, ras \in RouteAssignmentLists, t \in TableAnswers :
             /\ ras # <<>> /\ t.kind \in {"Exception", "table"} /\ t.unreachable = {}
             /\ orc = [OrcBlank EXCEPT !.depot_found = depot, !.customers = cs,
                          !.customer_ids = ids, !.route_assignments = ras, !.table = t]
        \/ \E ids \in SUBSET OrcIds, cfg \in BOOLEAN, t \in TableAnswers, finds \in BOOLEAN :
             orc = [OrcBlank EXCEPT !.depot_found = depot, !.customers = cs,
                       !.customer_ids = ids, !.osrm_configured = cfg, !.table = t,
                       !.solver_finds = finds]
    /\ http = Off /\ tbl = Off /\ bal = Off /\ seq = Off /\ vrp = Off /\ zon = Off /\ ovl = Off

\* optimize_routes lines 53-73: depot, customers of the zone, filter.
RouteLoad ==
    /\ orc.pc = "start" /\ orc.service = "routing"
    /\ orc' =
        IF ~orc.depot_found
        THEN [orc EXCEPT !.pc = "raised", !.calls = {"resolve_depot"},
                 !.raised = Error("ValueError", "optimize_routes:depot")]
        ELSE IF orc.customers = {}
        THEN [orc EXCEPT !.pc = "raised", !.calls = {"resolve_depot", "get_customers_for_zone"},
                 !.raised = Error("ValueError", "optimize_routes:customers")]
        ELSE IF FilterCustomers(orc.customers, orc.customer_ids) = {}
        THEN [orc EXCEPT !.pc = "raised", !.calls = {"resolve_depot", "get_customers_for_zone"},
                 !.raised = Error("ValueError", "optimize_routes:filtered")]
        ELSE [orc EXCEPT !.pc = "dispatch", !.calls = {"resolve_depot", "get_customers_for_zone"},
                 !.filtered = FilterCustomers(orc.customers, orc.customer_ids)]
    /\ UNCHANGED <<http, tbl, bal, seq, vrp, zon, ovl>>

\* Lines 75-78 and _optimize_sequences_only (291-445): the oracle table with
\* the haversine matrix on any exception, then solve_sequence_only, which
\* returns one plan per route of route_assignments_dict.
RouteSequencesOnly ==
    /\ orc.pc = "dispatch" /\ ManualMode(orc.route_assignments)
    /\ LET dict == BuildRouteAssignments(orc.route_assignments, orc.filtered, {}, <<>>)
       IN  orc' =
            IF dict = <<>>
            THEN [orc EXCEPT !.pc = "raised",
                     !.raised = Error("ValueError", "_optimize_sequences_only:assignments")]
            ELSE [orc EXCEPT !.pc = "done",
                     !.calls = @ \cup {"OSRMClient", "table", "solve_sequence_only"},
                     !.matrix = IF orc.table.kind = "table" THEN "osrm" ELSE "haversine",
                     !.plans = [k \in 1..Len(dict) |->
                                   [route_id |-> dict[k].route_id, day |-> dict[k].day,
                                    customers |-> SeqToSet(dict[k].customers)]],
                     !.metadata = {"status", "vehicles", "optimization_mode", "description",
                                   "zone_id", "city", "start_from_depot"}]
    /\ UNCHANGED <<http, tbl, bal, seq, vrp, zon, ovl>>

\* Lines 80-130: the oracle client and table, and the choice of the fallback.
RouteTable ==
    /\ orc.pc = "dispatch" /\ ~ManualMode(orc.route_assignments)
    /\ orc' =
        IF ~orc.osrm_configured
        THEN [orc EXCEPT !.pc = "raised", !.calls = @ \cup {"OSRMClient"},
                 !.raised = Error("ValueError", "optimize_routes:osrm")]
        ELSE [orc EXCEPT !.pc = "matrix", !.calls = @ \cup {"OSRMClient", "table"},
                 !.use_haversine_fallback =
                     \/ orc.table.kind # "table"
                     \/ MostlyUnreachable(orc.table.unreachable, orc.filtered)]
    /\ UNCHANGED <<http, tbl, bal, seq, vrp, zon, ovl>>

\* Lines 132-259: the haversine matrix when chosen, the call of solve_vrp
\* (rejected with TypeError when it passes a keyword solve_vrp does not
\* take), the metadata and the response.
RouteSolve ==
    /\ orc.pc = "matrix"
    /\ LET matrix == IF orc.use_haversine_fallback THEN "haversine" ELSE "osrm"
       IN  orc' =
            IF ~(SolveVrpCallKeywords \subseteq SolveVrpParameters)
            THEN [orc EXCEPT !.pc = "raised", !.matrix = matrix,
                     !.calls = @ \cup {"solve_vrp"},
                     !.raised = Error("TypeError", "solve_vrp")]
            ELSE IF ~orc.solver_finds
            THEN [orc EXCEPT !.pc = "raised", !.matrix = matrix,
                     !.calls = @ \cup {"solve_vrp"},
                     !.raised = Error("ValueError", "optimize_routes:no_routes")]
            ELSE [orc EXCEPT !.pc = "done", !.matrix = matrix,
                     !.calls = @ \cup {"solve_vrp"},
                     !.plans = <<[route_id |-> "ZONE_R01", day |-> WorkingDays[1],
                                  customers |-> orc.filtered]>>,
                     !.metadata = {"status", "vehicles", "constraints_relaxed",
                                   "zone_id", "city", "start_from_depot"}]
    /\ UNCHANGED <<http, tbl, bal, seq, vrp, zon, ovl>>

\* process_zoning_request lines 141-145: depot and _ensure_customers.
ZoningLoad ==
    /\ orc.pc = "start" /\ orc.service = "zoning"
    /\ orc' =
        IF ~orc.depot_found
        THEN [orc EXCEPT !.pc = "raised", !.calls = {"resolve_depot"},
                 !.raised = Error("ValueError", "process_zoning_request:depot")]
        ELSE IF orc.loader = "ValueError"
        THEN [orc EXCEPT !.pc = "raised", !.calls = {"resolve_depot", "get_customers_for_location"},
                 !.raised = Error("ValueError", "get_customers_for_location")]
        ELSE IF orc.loader = "ConnectionError"
        THEN [orc EXCEPT !.pc = "raised", !.calls = {"resolve_depot", "get_customers_for_location"},
                 !.raised = Error("ConnectionError", "_ensure_customers")]
        ELSE IF orc.customers = {}
        THEN [orc EXCEPT !.pc = "raised", !.calls = {"resolve_depot", "get_customers_for_location"},
                 !.raised = Error("ValueError", "_ensure_customers:customers")]
        ELSE [orc EXCEPT !.pc = "strategy", !.calls = {"resolve_depot", "get_customers_for_location"},
                 !.filtered = orc.customers]
    /\ UNCHANGED <<http, tbl, bal, seq, vrp, zon, ovl>>

\* Lines 146-165 and on: get_strategy, strategy.generate, then the travel data
\* from the oracle and the response.
ZoningGenerate ==
    /\ orc.pc = "strategy"
    /\ orc' =
        IF orc.method \notin {"polar", "isochrone", "clustering", "manual"}
        THEN [orc EXCEPT !.pc = "raised", !.raised = Error("ValueError", "get_strategy")]
        ELSE IF orc.strategy = "ValueError"
        THEN [orc EXCEPT !.pc = "raised", !.calls = @ \cup {"strategy"},
                 !.raised = Error("ValueError", "strategy")]
        ELSE [orc EXCEPT !.pc = "done", !.calls = @ \cup {"strategy", "table"},
                 !.metadata = {"strategy", "city", "method", "balance_enabled"}]
    /\ UNCHANGED <<http, tbl, bal, seq, vrp, zon, ovl>>

OrcNext ==
    \/ RouteLoad \/ RouteSequencesOnly \/ RouteTable \/ RouteSolve
    \/ ZoningLoad \/ ZoningGenerate

SpecOrchestrator == OrcInit /\ [][OrcNext]_vars

OrcTerminal == orc.pc \in {"done", "raised"}

FullVrpMode == orc.service = "routing" /\ orc.route_assignments = <<>>

\* The oracle call failed, or more than half of the depot legs of the
\* customers routed are unreachable.
OracleUnusable ==
    \/ orc.table.kind # "table"
    \/ 2 * Cardinality(orc.table.unreachable \cap orc.filtered) > Cardinality(orc.filtered)

\* C17: in full-VRP mode, when the oracle call fails or more than 50% of the
\* depot legs are unreachable the haversine matrix replaces the oracle's and
\* the response returned (the solver finding routes) records the fallback in
\* its metadata; with at most 50% unreachable the oracle matrix is kept.
C17_HaversineFallbackRecorded ==
    (FullVrpMode /\ OrcTerminal /\ "table" \in orc.calls) =>
        IF OracleUnusable
        THEN /\ orc.matrix = "haversine"
             /\ orc.solver_finds => (orc.pc = "done" /\ "haversine_fallback" \in orc.metadata)
        ELSE orc.matrix = "osrm"

\* C18: with manual route assignments in the request, solve_vrp is never
\* invoked, and every plan returned carries the route id and the day of one
\* of the caller's assignments and comes from the sequence-only mode.
C18_ManualModeSequenceOnly ==
    (orc.service = "routing" /\ orc.route_assignments # <<>>) =>
        /\ "solve_vrp" \notin orc.calls
        /\ orc.pc = "done" =>
              /\ "solve_sequence_only" \in orc.calls
              /\ "optimization_mode" \in orc.metadata
              /\ \A p \in 1..Len(orc.plans) :
                    \E a \in 1..Len(orc.route_assignments) :
                        /\ orc.plans[p].route_id = orc.route_assignments[a].route_id
                        /\ orc.plans[p].day = orc.route_assignments[a].day

\* A manual request answered with the plans of its two routes.
C18_Witness ==
    /\ orc.service = "routing" /\ orc.pc = "done"
    /\ Len(orc.route_assignments) = 2
    /\ Len(orc.plans) = 2
    /\ orc.plans[1].route_id = "R1" /\ orc.plans[2].route_id = "R2"
    /\ "solve_sequence_only" \in orc.calls

\* The strategies, the oracle and the solvers.
WorkCalls == {"strategy", "OSRMClient", "table", "solve_vrp", "solve_sequence_only"}

\* The request cannot be served: no depot, no customer, or (routing) no
\* customer left by the explicit filter.
NothingToServe ==
    \/ ~orc.depot_found
    \/ orc.loader = "customers" /\ orc.customers = {}
    \/ /\ orc.service = "routing" /\ orc.customer_ids # {}
       /\ orc.customers \cap orc.customer_ids = {}

\* C20: without depot or without customers both orchestrators raise
\* ValueError before any strategy, oracle or solver is invoked; a ValueError
\* of customer loading or of a strategy reaches the caller as raised.
C20_HardErrorsBeforeWork ==
    /\ (NothingToServe /\ orc.pc # "start") =>
          /\ orc.pc = "raised"
          /\ orc.raised.type = "ValueError"
          /\ orc.calls \cap WorkCalls = {}
    /\ (OrcTerminal /\ orc.depot_found /\ orc.loader = "ValueError") =>
          orc.raised = Error("ValueError", "get_customers_for_location")
    /\ (OrcTerminal /\ orc.service = "zoning" /\ "strategy" \in orc.calls
            /\ orc.strategy = "ValueError") =>
          orc.raised = Error("ValueError", "strategy")

\* A routing request whose explicit filter leaves no customer of a
\* non-empty zone: ValueError, nothing invoked beyond depot and customers.
C20_Witness ==
    /\ orc.service = "routing" /\ orc.pc = "raised"
    /\ orc.depot_found /\ orc.customers # {} /\ orc.customer_ids # {}
    /\ orc.raised = Error("ValueError", "optimize_routes:filtered")
    /\ orc.calls = {"resolve_depot", "get_customers_for_zone"}

\* A full-VRP request that can be served: depot resolved, customers in the
\* zone, no filter, no manual assignments, the oracle configured and
\* answering with a fully reachable table, the solver able to find routes.
ServableFullVrp ==
    /\ FullVrpMode /\ orc.depot_found /\ orc.customers # {} /\ orc.customer_ids = {}
    /\ orc.osrm_configured /\ orc.table = [kind |-> "table", unreachable |-> {}]
    /\ orc.solver_finds

\* C21: a servable full-VRP request completes without error and returns a
\* response with at least one plan, every plan's route id starting with the
\* zone id followed by "_R".
C21_FullVrpReturnsPlans ==
    (ServableFullVrp /\ OrcTerminal) =>
        /\ orc.pc = "done" /\ orc.raised = NoError
        /\ Len(orc.plans) >= 1
        /\ \A p \in 1..Len(orc.plans) : orc.plans[p].route_id = "ZONE_R01"

\* The overlays emitted for a zone.
OverlaysOf(zone) == {k \in 1..Len(ovl.overlays) : ovl.overlays[k].zone_id = zone}

VrpVisits(customer) ==
    {<<p, k>> \in (1..Len(vrp.plans)) \X (1..MaxVrpCustomers) :
        k <= Len(vrp.plans[p].stops) /\ vrp.plans[p].stops[k].customer_id = customer}

\* C23: whenever solve_vrp returns plans, every input customer is a stop of
\* exactly one plan, the customer counts add up to the number of customers,
\* every plan has a stop, and there is one plan per vehicle route with customers.
C23_EveryCustomerInOnePlan ==
    (vrp.pc = "done" /\ vrp.plans # <<>>) =>
        /\ \A c \in 1..Len(vrp.legs) : Cardinality(VrpVisits(c)) = 1
        /\ SumSeq([p \in 1..Len(vrp.plans) |-> vrp.plans[p].customer_count]) = Len(vrp.legs)
        /\ \A p \in 1..Len(vrp.plans) :
              /\ Len(vrp.plans[p].stops) >= 1
              /\ vrp.plans[p].customer_count = Len(vrp.plans[p].stops)
        /\ Len(vrp.plans) =
              Cardinality({v \in 1..Len(vrp.assignment) : vrp.assignment[v] # <<>>})

\* Two customers and max_customers_per_route = 2: exactly one plan, with
\* customer_count = 2.
C23_Witness ==
    /\ vrp.pc = "done"
    /\ Len(vrp.legs) = 2 /\ vrp.constraints.max_customers_per_route = 2
    /\ Len(vrp.plans) = 1
    /\ vrp.plans[1].customer_count = 2

\* ------------------------------------------------------------------------
\* PolarSectorZoning.generate on customers taken from the eight bearings of
\* the spec's worked example.
\* ------------------------------------------------------------------------
ExampleBearings == <<10, 80, 100, 190, 200, 280, 300, 350>>

\* The bearings of the example at the positions in S, in their order.
RECURSIVE BearingsAt(_, _)
BearingsAt(S, k) ==
    IF k > Len(ExampleBearings) THEN <<>>
    ELSE (IF k \in S THEN <<ExampleBearings[k]>> ELSE <<>>) \o BearingsAt(S, k + 1)

PolarExampleInit ==
    /\ \E S \in SUBSET (1..Len(ExampleBearings)), tz \in 0..MaxTargetZones,
          rot \in RotationChoices, code \in DepotCodes :
        zon = [ZonBlank EXCEPT !.method = "polar",
                  !.customers = [i \in 1..Cardinality(S) |-> i],
                  !.depot_code = code, !.target_zones = tz,
                  !.bearing = BearingsAt(S, 1), !.rotation_offset = rot]
    /\ http = Off /\ tbl = Off /\ bal = Off /\ seq = Off /\ vrp = Off /\ ovl = Off /\ orc = Off

SpecPolarExample == PolarExampleInit /\ [][PolarGenerate]_vars

\* The worked example: all eight bearings, 4 sectors, no rotation.
PolarExampleDone ==
    /\ PolarDone
    /\ zon.bearing = ExampleBearings /\ zon.target_zones = 4 /\ zon.rotation_offset = 0

\* The customers assigned to the sector with id number s.
InSector(s) == {c \in DOMAIN zon.assignments : zon.assignments[c][2] = s}

\* C24 as stated: the example puts exactly 2 customers in each of the 4 sectors.
C24_TwoPerSectorAsStated ==
    PolarExampleDone => \A s \in 1..4 : Cardinality(InSector(s)) = 2

\* C24 amended: the example puts 2, 1, 2 and 3 customers in the sectors
\* [0, 90), [90, 180), [180, 270) and [270, 360): bearings 10 and 80; 100;
\* 190 and 200; 280, 300 and 350.
C24_ExampleSectorCounts ==
    PolarExampleDone =>
        /\ InSector(1) = {1, 2}
        /\ InSector(2) = {3}
        /\ InSector(3) = {4, 5}
        /\ InSector(4) = {6, 7, 8}

C24_Witness == PolarExampleDone /\ Cardinality(DOMAIN zon.assignments) = 8

\* ------------------------------------------------------------------------
\* balance_assignments: what one pass of the loop does.
\* ------------------------------------------------------------------------
\* Position of a zone in zone-map order.
ZonePosition(zone) == CHOOSE k \in 1..Len(bal.zone_order) : bal.zone_order[k] = zone

\* The zone of the highest / lowest count, first-encountered on ties.
HighestZone ==
    CHOOSE z \in SeqToSet(bal.zone_order) :
        \A y \in SeqToSet(bal.zone_order) :
            \/ bal.counts[y] < bal.counts[z]
            \/ bal.counts[y] = bal.counts[z] /\ ZonePosition(z) <= ZonePosition(y)

LowestZone ==
    CHOOSE z \in SeqToSet(bal.zone_order) :
        \A y \in SeqToSet(bal.zone_order) :
            \/ bal.counts[y] > bal.counts[z]
            \/ bal.counts[y] = bal.counts[z] /\ ZonePosition(z) <= ZonePosition(y)

\* Bounds on the known customers and the zones of the zone map.
HighestWithinUpper ==
    bal.counts[HighestZone] * Len(bal.zone_order) * 100
        <= Cardinality(bal.known) * (100 + bal.tolerance)

LowestWithinLower ==
    bal.counts[LowestZone] * Len(bal.zone_order) * 100
        >= Cardinality(bal.known) * (100 - bal.tolerance)

\* Distance of the customer at position k of the highest zone to the centroid
\* of the lowest zone, in units of 1/(size of the lowest zone) degrees.
DistanceToLowest(k) ==
    LET target == bal.zone_map[LowestZone]
    IN  Abs(bal.lat[bal.zone_map[HighestZone][k]] * Len(target)
            - SumSeq([j \in 1..Len(target) |-> bal.lat[target[j]]]))

\* The customer of the highest zone closest to the lowest zone's centroid,
\* first-encountered on ties.
ClosestOfHighest ==
    LET from == bal.zone_map[HighestZone]
        k == CHOOSE i \in 1..Len(from) :
                 \A j \in 1..Len(from) :
                     \/ DistanceToLowest(j) > DistanceToLowest(i)
                     \/ DistanceToLowest(j) = DistanceToLowest(i) /\ i <= j
    IN  from[k]

\* C25: each pass of the loop picks the highest and lowest zone (first in
\* zone-map order on ties); it stops without a transfer when the highest count
\* is within the upper bound or the lowest within the lower bound, and
\* otherwise moves exactly one customer, the one of the highest zone closest to
\* the lowest zone's centroid (first on ties), and appends one transfer record.
\* The successor's log and assignments are fixed by the state, so equal inputs
\* give equal logs and assignments.
C25_IterationRule ==
    [][(bal.pc = "loop" /\ bal.iterations < bal.max_iterations) =>
        IF HighestWithinUpper \/ LowestWithinLower
        THEN /\ bal'.pc = "done"
             /\ bal'.transfers = bal.transfers
             /\ bal'.assignments = bal.assignments
        ELSE /\ bal'.pc = "loop"
             /\ Len(bal'.transfers) = Len(bal.transfers) + 1
             /\ \A k \in 1..Len(bal.transfers) : bal'.transfers[k] = bal.transfers[k]
             /\ LET t == bal'.transfers[Len(bal'.transfers)]
                IN  /\ t.customer_id = ClosestOfHighest
                    /\ t.from_zone = HighestZone
                    /\ t.to_zone = LowestZone
                    /\ bal.assignments[t.customer_id] = HighestZone
                    /\ bal'.assignments =
                          [bal.assignments EXCEPT ![ClosestOfHighest] = LowestZone]]_vars

\* C25 witness: a pass has moved a customer although two zones tied for the
\* lowest count.
C25_Witness ==
    /\ bal.pc = "done" /\ Len(bal.transfers) >= 1
    /\ Len(bal.zone_order) = 3
    /\ bal.counts_before["B"] = 1 /\ bal.counts_before["C"] = 1
    /\ bal.transfers[1].to_zone = "B"

\* ------------------------------------------------------------------------
\* solve_vrp: the one-shot relaxation retry.
\* ------------------------------------------------------------------------
\* The worst depot -> customer leg the oracle answered, in metres.
WorstReachableLegM ==
    LET reach == {vrp.legs[i] : i \in {j \in 1..Len(vrp.legs) : vrp.legs[j] # NoneValue}}
    IN  IF reach = {} THEN 0 ELSE CHOOSE m \in reach : \A x \in reach : x <= m

\* Twice the claimed relaxed bounds (metres, seconds), to stay in integers.
TwiceClaimedDistance ==
    Max3(3 * vrp.constraints.max_distance_per_route_km * 1000,
         5 * WorstReachableLegM, 2 * 100 * 1000)

TwiceClaimedDuration ==
    Max3(3 * vrp.constraints.max_route_duration_minutes * 60,
         5 * ((WorstReachableLegM * SecondsPerKm) \div 1000), 2 * 900 * 60)

RelaxedAttempt == vrp.pc = "solve_relaxed" \/ vrp.used_relaxed_constraints

\* C26: the solver is invoked at most twice; the second invocation follows a
\* first one that found nothing, keeps the capacity bound, and runs under
\* max(1.5 x original, 2.5 x worst reachable depot leg, 100 km / 900 min) for
\* distance and duration, each at least the original bound.
C26_RelaxOnceOnly ==
    /\ [](vrp.pc # "off" =>
            /\ vrp.solves <= 2
            /\ (vrp.solves = 2 => vrp.pc \in {"extract", "done"})
            /\ (RelaxedAttempt =>
                  /\ vrp.solves >= 1
                  /\ 2 * vrp.dist_cap = TwiceClaimedDistance
                  /\ 2 * vrp.time_cap = TwiceClaimedDuration
                  /\ vrp.dist_cap >= vrp.constraints.max_distance_per_route_km * 1000
                  /\ vrp.time_cap >= vrp.constraints.max_route_duration_minutes * 60))
    /\ [][/\ vrp'.constraints = vrp.constraints
          /\ vrp'.solves \in {vrp.solves, vrp.solves + 1}
          /\ (vrp'.solves = 2 /\ vrp.solves = 1 =>
                vrp.pc = "solve_relaxed" /\ ~vrp.found)
          /\ (vrp'.solves = 1 /\ vrp.solves = 0 => vrp.pc = "solve")]_vars

\* C26 witness: plans returned by the second solve.
C26_Witness ==
    /\ vrp.pc = "done" /\ vrp.solves = 2 /\ vrp.used_relaxed_constraints
    /\ Len(vrp.plans) >= 1
    /\ vrp.dist_cap > vrp.constraints.max_distance_per_route_km * 1000

\* ------------------------------------------------------------------------
\* solve_vrp: constraint_violations and metadata constraints_relaxed.
\* ------------------------------------------------------------------------
\* solve_vrp returned plans; metadata["constraints_relaxed"] is
\* used_relaxed_constraints (lines 386-397).
VrpReturnedPlans == vrp.pc = "done" /\ vrp.status = "optimal"

\* C27: in every returned plan, constraint_violations has distance_km iff the
\* total distance exceeds the original distance bound (value: the excess),
\* duration_min iff the total duration exceeds the original duration bound,
\* and min_customers iff the stop count is below min_customers_per_route; the
\* first two appear only when constraints_relaxed is true, and
\* constraints_relaxed is true exactly when the plans come from the retry.
C27_ViolationsAgainstOriginal ==
    VrpReturnedPlans =>
        /\ vrp.used_relaxed_constraints <=> (vrp.solves = 2)
        /\ \A p \in 1..Len(vrp.plans) :
            LET plan == vrp.plans[p]
                v == plan.constraint_violations
                max_m == vrp.constraints.max_distance_per_route_km * 1000
                max_s == vrp.constraints.max_route_duration_minutes * 60
                min_c == vrp.constraints.min_customers_per_route
            IN  /\ (v.distance_m # 0) <=> (plan.total_distance_m > max_m)
                /\ (v.distance_m # 0) => v.distance_m = plan.total_distance_m - max_m
                /\ (v.duration_s # 0) <=> (plan.total_duration_s > max_s)
                /\ (v.duration_s # 0) => v.duration_s = plan.total_duration_s - max_s
                /\ (v.min_customers # 0) <=> (Len(plan.stops) < min_c)
                /\ (v.min_customers # 0) => v.min_customers = min_c - Len(plan.stops)
                /\ (v.distance_m # 0 \/ v.duration_s # 0) => vrp.used_relaxed_constraints

\* C27 witness: the retry returned a plan over the original distance bound
\* and within the original duration bound.
C27_Witness ==
    /\ VrpReturnedPlans
    /\ vrp.used_relaxed_constraints
    /\ \E p \in 1..Len(vrp.plans) :
          /\ vrp.plans[p].constraint_violations.distance_m > 0
          /\ vrp.plans[p].constraint_violations.duration_s = 0

\* ------------------------------------------------------------------------
\* Per-stop distance and arrival of solve_vrp and solve_sequence_only.
\* ------------------------------------------------------------------------
\* Every stop carries the matrix distance from the node visited just before it
\* (the depot before stop 1) and the duration accumulated from the route start.
StopsFollowTour(legs, stops) ==
    \A k \in 1..Len(stops) :
        /\ stops[k].distance_from_prev_m =
              DistanceMatrix(legs, TourNode(stops, k - 1), TourNode(stops, k))
        /\ stops[k].arrival_s =
              SumSeq([j \in 1..k |->
                        DurationMatrix(legs, TourNode(stops, j - 1), TourNode(stops, j))])

\* C28: for every stop emitted by solve_vrp and by solve_sequence_only,
\* distance_from_prev is the matrix distance from the node visited immediately
\* before it to that stop, and arrival is the travel duration accumulated from
\* the route start up to that stop.
C28_StopDistanceFromPrevious ==
    /\ (vrp.pc = "done" =>
          \A p \in 1..Len(vrp.plans) : StopsFollowTour(vrp.legs, vrp.plans[p].stops))
    /\ (seq.pc = "done" =>
          \A p \in 1..Len(seq.plans) : StopsFollowTour(seq.legs, seq.plans[p].stops))

\* ------------------------------------------------------------------------
\* OSRMClient.table, chunked path: concurrency of the chunk requests.
\* ------------------------------------------------------------------------
ChunkedCall == tbl.pc \in {"pool", "returned", "raised"} /\ tbl.chunks > 0

\* The chunk request whose index ranges hold cell (i, j).
RequestOfCell(i, j) == (i \div tbl.chunk_size) * tbl.chunks + (j \div tbl.chunk_size) + 1

\* C29: under every interleaving and completion order of the chunk requests,
\* no cell of the result matrices is written by more than one chunk result
\* (the chunk index ranges are pairwise disjoint), at most
\* max_parallel_requests requests are in flight, and the matrices depend only
\* on the chunk results, not on the order in which they completed.
C29_ChunkWorkersIndependent ==
    ChunkedCall =>
        /\ \A i, j \in 0..(tbl.n - 1) : tbl.writes[i][j] <= 1
        /\ \A r1, r2 \in 1..(tbl.chunks * tbl.chunks) :
              r1 # r2 => CellsOf(tbl.n, tbl.chunk_size, r1, tbl.chunks)
                           \cap CellsOf(tbl.n, tbl.chunk_size, r2, tbl.chunks) = {}
        /\ Cardinality(tbl.running) <= tbl.max_parallel
        /\ \A r \in tbl.running : tbl.outcome[r] = "running"
        /\ \A i, j \in 0..(tbl.n - 1) :
              LET done == tbl.outcome[RequestOfCell(i, j)] = "ok"
              IN  /\ tbl.durations[i][j] =
                        (IF done THEN OracleDuration(i + 1, j + 1) ELSE NoneValue)
                  /\ tbl.distances[i][j] =
                        (IF done THEN OracleDistance(i + 1, j + 1) ELSE NoneValue)
                  /\ tbl.writes[i][j] = (IF done THEN 1 ELSE 0)

\* C29 witness: two requests were in flight at once and the second finished
\* before the first.
C29_Witness ==
    /\ ChunkedCall /\ tbl.pc = "pool" /\ tbl.max_parallel = 2
    /\ tbl.outcome[1] = "running" /\ tbl.outcome[2] = "ok"

\* ------------------------------------------------------------------------
\* balance_assignments only relabels customers.
\* ------------------------------------------------------------------------
\* The customers whose zone differs between two assignment maps.
Relabelled(before, after) == {i \in DOMAIN before : before[i] # after[i]}

\* Per-zone tally of an assignment map over the customers of the list.
Tally(assignments, zone) == Cardinality({i \in bal.known : assignments[i] = zone})

BalanceStarted == bal.pc \in {"loop", "done"}

\* C30: the returned assignments have the input's key set, each transfer
\* changes the zone of exactly one customer, the counts keep their total,
\* counts_after is the per-zone tally of the returned assignments over the
\* customers known to the customer list, and the loop performs at most
\* max_iterations transfers (default: the number of assignments).
C30_BalanceOnlyRelabels ==
    /\ [](BalanceStarted =>
            /\ DOMAIN bal.assignments = DOMAIN bal.input
            /\ Cardinality(Relabelled(bal.input, bal.assignments)) <= Len(bal.transfers)
            /\ DOMAIN bal.counts = DOMAIN bal.counts_before
            /\ TotalOf(bal.counts, bal.zone_order)
                  = TotalOf(bal.counts_before, bal.zone_order)
            /\ \A z \in SeqToSet(ZoneIds) :
                  IF z \in DOMAIN bal.counts
                  THEN /\ bal.counts[z] = Tally(bal.assignments, z)
                       /\ bal.counts_before[z] = Tally(bal.input, z)
                  ELSE Tally(bal.assignments, z) = 0
            /\ Len(bal.transfers) <= bal.max_iterations
            /\ bal.max_iterations >= 1)
    /\ [][/\ (bal.pc = "start" =>
                bal'.max_iterations =
                    (IF bal.max_iterations = 0 THEN Len(bal.input) ELSE bal.max_iterations))
          /\ (bal.pc = "loop" =>
                /\ bal'.max_iterations = bal.max_iterations
                /\ Len(bal'.transfers) \in {Len(bal.transfers), Len(bal.transfers) + 1}
                /\ Cardinality(Relabelled(bal.assignments, bal'.assignments))
                      = Len(bal'.transfers) - Len(bal.transfers))]_vars

\* C30 witness: a pass that moved a customer while another customer of the
\* assignment map is missing from the customer list.
C30_Witness ==
    /\ bal.pc = "done" /\ Len(bal.transfers) >= 1
    /\ bal.known # DOMAIN bal.input
    /\ bal.assignments # bal.input

====
